---- MODULE Spec2Model ----
(***************************************************************************)
(* Authentication and authorization of plana-api: the AuthMiddleware       *)
(* dispatcher, the route dependencies (get_auth, get_current_user,         *)
(* bot_only_operation, require_permission) and the guild-admin permission  *)
(* cache with its 60 second TTL, with the Discord guild check as an        *)
(* external call at which a request suspends.                              *)
(*                                                                         *)
(* A path "/a/b" is the sequence <<"a", "b">>, "/" is <<"">> and "/a/" is   *)
(* <<"a", "">>.  An absent header is <<>>, a present one is <<value>>.      *)
(* Time is in whole seconds.                                               *)
(***************************************************************************)
EXTENDS Integers, Sequences, FiniteSets, TLC

VARIABLES
    now,         \* time.time(), in seconds
    ticks,       \* number of clock advances so far (bounds the run)
    cache,       \* _permission_cache: (user_id, guild_id) -> entry
    calls,       \* per slot: a require_permission call suspended at Discord
    perms,       \* Discord's fact: (user, guild) -> permissions bitmask
    upstreamUp,  \* whether the Discord API answers
    resp,        \* the response produced by the step just taken, if any
    lastInvoke,  \* history: per key, start of the latest call that asked Discord
    overlapped,  \* history: per key, whether two calls for it ever overlapped
    goodSince,   \* history: per key, since when the user is admin and Discord up
    probe        \* the function application under examination: input and output

vars == <<now, ticks, cache, calls, perms, upstreamUp, resp,
          lastInvoke, overlapped, goodSince, probe>>

----------------------------------------------------------------------------
(* Bounds of the model *)

MaxTicks == 2
NumSlots == 2

(* Program constants *)

PERMISSION_CACHE_TTL == 60
ADMIN_PERMISSION == 8
TokenLifetime == 86400

API_KEYS == {"key1"}
BOT_USER_ID == "plana_bot"
BOT_USERNAME == "Plana Bot"

(* The finite world *)

Users == {"u1"}
Guilds == {"111", "222"}
Keys == Users \X Guilds
Slots == 1..NumSlots
TickSteps == {1, PERMISSION_CACHE_TTL}
DigitSegs == {"111", "222"}
NoTime == 0 - 1
PermValues == {0, ADMIN_PERMISSION}

----------------------------------------------------------------------------
(* Session credentials *)

NoToken == [form |-> "empty", user_id |-> "", username |-> "",
            discord_access_token |-> "", exp |-> 0]

\* the payload of a token: everything but the envelope
Payload(token) == [f \in DOMAIN token \ {"form"} |-> token[f]]

\* Mutant: a token is still accepted in the second its exp names
VerifyJwtExpiresLate(token, t) ==
    IF token.form # "signed"
    THEN [ok |-> FALSE, detail |-> "Invalid token", claims |-> << >>]
    ELSE IF token.exp < t
    THEN [ok |-> FALSE, detail |-> "Token has expired", claims |-> << >>]
    ELSE [ok |-> TRUE, detail |-> "", claims |-> Payload(token)]

\* Mutant: the signature is not verified
VerifyJwtSkipsSignature(token, t) ==
    IF token.form = "malformed"
    THEN [ok |-> FALSE, detail |-> "Invalid token", claims |-> << >>]
    ELSE IF token.exp <= t
    THEN [ok |-> FALSE, detail |-> "Token has expired", claims |-> << >>]
    ELSE [ok |-> TRUE, detail |-> "", claims |-> Payload(token)]

\* jwt.decode(token, secret, algorithms=["HS256"]): the signature and the
\* structure first, then the exp claim (a token is expired from the second
\* exp names on), then the payload is returned.
verify_jwt_token(token, t) ==
    IF token.form # "signed"
    THEN [ok |-> FALSE, detail |-> "Invalid token", claims |-> << >>]
    ELSE IF token.exp <= t
    THEN [ok |-> FALSE, detail |-> "Token has expired", claims |-> << >>]
    ELSE [ok |-> TRUE, detail |-> "", claims |-> Payload(token)]

----------------------------------------------------------------------------
(* AuthMiddleware *)

NoAuth == [auth_type |-> "none", user_id |-> "", username |-> "",
           discord_token |-> ""]

AuthData(auth_type, user_id, username, discord_token) ==
    [auth_type |-> auth_type, user_id |-> user_id, username |-> username,
     discord_token |-> discord_token]

Root == <<"">>

PUBLIC_ROUTES ==
    { Root, <<"health">>, <<"docs">>, <<"redoc">>, <<"favicon.ico">>,
      <<"openapi.json">>, <<"api", "auth", "url">>,
      <<"api", "auth", "invite">>, <<"api", "auth", "callback">> }

\* path.startswith(f"{route}/")
StartsWithRoute(path, route) ==
    /\ Len(path) > Len(route)
    /\ SubSeq(path, 1, Len(route)) = route

\* Mutant: only the listed paths themselves are public
IsPublicExactOnly(path) == path \in PUBLIC_ROUTES

_is_public_route(path) ==
    \/ path \in PUBLIC_ROUTES
    \/ \E route \in PUBLIC_ROUTES \ {Root} : StartsWithRoute(path, route)

\* GUILD_ID_PATTERN.search(path): the positions i where "/api/guilds/<digits>/"
\* starts
GuildIdMatches(path) ==
    { i \in 1..Len(path) :
        /\ i + 3 <= Len(path)
        /\ path[i] = "api"
        /\ path[i + 1] = "guilds"
        /\ path[i + 2] \in DigitSegs }

Least(S) == CHOOSE x \in S : \A y \in S : x <= y

\* Mutant: the query parameter is tried first
ExtractGuildIdQueryFirst(request) ==
    IF request.guild_id_param # "" THEN request.guild_id_param
    ELSE IF GuildIdMatches(request.path) # {}
    THEN request.path[Least(GuildIdMatches(request.path)) + 2]
    ELSE ""

\* None is ""
_extract_guild_id(request) ==
    IF GuildIdMatches(request.path) # {}
    THEN request.path[Least(GuildIdMatches(request.path)) + 2]
    ELSE request.guild_id_param

\* Mutant: an unknown key is ignored and the Authorization header decides
AuthenticateKeyFallsThrough(request, t) ==
    IF request.api_key # <<>> /\ request.api_key[1] \in API_KEYS
    THEN [ok |-> TRUE, detail |-> "",
          auth |-> AuthData("bot", BOT_USER_ID, BOT_USERNAME, "")]
    ELSE IF request.authorization.scheme = "Bearer"
            /\ request.authorization.token.form # "empty"
            /\ verify_jwt_token(request.authorization.token, t).ok
    THEN [ok |-> TRUE, detail |-> "",
          auth |-> AuthData("user",
                            request.authorization.token.user_id,
                            request.authorization.token.username,
                            request.authorization.token.discord_access_token)]
    ELSE [ok |-> FALSE, detail |-> "Authentication required", auth |-> NoAuth]

\* truthiness of headers.get(API_KEY_HEADER)
HasApiKey(request) == request.api_key # <<>> /\ request.api_key[1] # ""

_authenticate(request, t) ==
    IF HasApiKey(request)
    THEN IF request.api_key[1] \notin API_KEYS
         THEN [ok |-> FALSE, detail |-> "Invalid API key", auth |-> NoAuth]
         ELSE [ok |-> TRUE, detail |-> "",
               auth |-> AuthData("bot", BOT_USER_ID, BOT_USERNAME, "")]
    ELSE IF request.authorization.scheme = "Bearer"
    THEN IF request.authorization.token.form = "empty"
         THEN [ok |-> FALSE, detail |-> "Empty token", auth |-> NoAuth]
         ELSE IF ~verify_jwt_token(request.authorization.token, t).ok
         THEN [ok |-> FALSE,
               detail |-> verify_jwt_token(request.authorization.token, t).detail,
               auth |-> NoAuth]
         ELSE [ok |-> TRUE, detail |-> "",
               auth |-> AuthData("user",
                                 request.authorization.token.user_id,
                                 request.authorization.token.username,
                                 request.authorization.token.discord_access_token)]
    ELSE [ok |-> FALSE, detail |-> "Authentication required", auth |-> NoAuth]

\* Mutant: the 401 response is built but not returned, the request goes on
DispatchNoReject(request, t) ==
    [pass |-> TRUE, hasState |-> FALSE, auth |-> NoAuth, guild_id |-> "",
     detail |-> ""]

\* What dispatch decides before call_next: reject with 401, or pass the request
\* on, with or without request.state.auth and request.state.guild_id.
dispatch(request, t) ==
    IF request.method = "OPTIONS" \/ _is_public_route(request.path)
    THEN [pass |-> TRUE, hasState |-> FALSE, auth |-> NoAuth, guild_id |-> "",
          detail |-> ""]
    ELSE IF ~_authenticate(request, t).ok
    THEN [pass |-> FALSE, hasState |-> FALSE, auth |-> NoAuth, guild_id |-> "",
          detail |-> _authenticate(request, t).detail]
    ELSE [pass |-> TRUE, hasState |-> TRUE,
          auth |-> _authenticate(request, t).auth,
          guild_id |-> _extract_guild_id(request), detail |-> ""]

----------------------------------------------------------------------------
(* Routing: the dependency each route declares *)

AdminResources == {"preferences", "welcome", "levels", "ai"}
ListResources == {"messages", "react-roles", "rss"}
WriteMethods == {"POST", "PUT", "PATCH", "DELETE"}

\* The routers included under /api/guilds: method and the segments after
\* {guild_id} to the dependency of the route, "" when there is no such route.
GuildRouteDependency(method, tail) ==
    IF tail = <<"data">>
    THEN IF method = "GET" THEN "require_permission"
         ELSE IF method \in WriteMethods THEN "bot_only_operation" ELSE ""
    ELSE IF Len(tail) = 1 /\ tail[1] \in AdminResources
    THEN IF method \in {"GET"} \cup WriteMethods
         THEN "require_permission" ELSE ""
    ELSE IF Len(tail) = 1 /\ tail[1] \in ListResources \cup {"users"}
    THEN IF method \in {"GET", "POST"} THEN "require_permission" ELSE ""
    ELSE IF Len(tail) = 2 /\ tail[1] \in ListResources
    THEN IF method \in {"GET", "PUT", "DELETE"} THEN "require_permission"
         ELSE IF method = "PATCH" /\ tail[1] # "messages"
         THEN "require_permission" ELSE ""
    ELSE IF Len(tail) = 2 /\ tail[1] = "users"
    THEN IF method = "GET" THEN "require_permission"
         ELSE IF method \in {"PUT", "PATCH", "DELETE"}
         THEN "bot_only_operation" ELSE ""
    ELSE IF Len(tail) = 4 /\ tail[1] = "users" /\ tail[3] = "user_data"
    THEN IF method \in {"GET", "POST", "PUT", "PATCH"}
         THEN "bot_only_operation" ELSE ""
    ELSE IF tail = <<"images">>
    THEN IF method = "POST" THEN "none" ELSE ""
    ELSE ""

\* The route a request reaches after the middleware: whether one matches, its
\* dependency, and whether the path parameters validate (guild_id: int of the
\* image upload).
Route(request) ==
    IF request.path \in {Root, <<"health">>}
    THEN [found |-> request.method = "GET", dependency |-> "none",
          valid |-> TRUE]
    ELSE IF request.path \in {<<"api", "auth", "me">>, <<"api", "auth", "guilds">>}
    THEN [found |-> request.method = "GET", dependency |-> "get_current_user",
          valid |-> TRUE]
    ELSE IF request.path = <<"api", "auth", "logout">>
    THEN [found |-> request.method = "POST", dependency |-> "get_current_user",
          valid |-> TRUE]
    ELSE IF Len(request.path) >= 4 /\ SubSeq(request.path, 1, 2) = <<"api", "guilds">>
    THEN [found |-> GuildRouteDependency(request.method,
                        SubSeq(request.path, 4, Len(request.path))) # "",
          dependency |-> GuildRouteDependency(request.method,
                        SubSeq(request.path, 4, Len(request.path))),
          valid |-> \/ SubSeq(request.path, 4, Len(request.path)) # <<"images">>
                    \/ request.path[3] \in DigitSegs]
    ELSE [found |-> FALSE, dependency |-> "", valid |-> TRUE]

----------------------------------------------------------------------------
(* Route dependencies: "ok", "401", "403", or "verify" when the guild-admin
   check has to decide *)

\* Mutant: request.state.auth is not asked for
GetAuthUnchecked(d) == "ok"

get_auth(d) == IF ~d.hasState THEN "401" ELSE "ok"

\* Mutant: every authenticated caller is taken for the current user
GetCurrentUserAllowsBot(d) == get_auth(d)

get_current_user(d) ==
    IF get_auth(d) # "ok" THEN get_auth(d)
    ELSE IF d.auth.auth_type # "user" THEN "403"
    ELSE "ok"

\* Mutant: every authenticated caller passes
BotOnlyAllowsUser(d) == get_auth(d)

bot_only_operation(d) ==
    IF get_auth(d) # "ok" THEN get_auth(d)
    ELSE IF d.auth.auth_type = "bot" THEN "ok"
    ELSE "403"

\* Mutant: the bot is let through only when a guild id was extracted
RequirePermissionBotNeedsGuild(d) ==
    IF get_auth(d) # "ok" THEN get_auth(d)
    ELSE IF d.auth.auth_type = "bot" /\ d.guild_id # "" THEN "ok"
    ELSE IF d.auth.auth_type = "user" /\ d.guild_id # "" THEN "verify"
    ELSE "403"

\* Mutant: the catch-all raises UNAUTHORIZED
RequirePermissionCatchAll401(d) ==
    IF get_auth(d) # "ok" THEN get_auth(d)
    ELSE IF d.auth.auth_type = "bot" THEN "ok"
    ELSE IF d.auth.auth_type = "user" /\ d.guild_id # "" THEN "verify"
    ELSE "401"

require_permission(d) ==
    IF get_auth(d) # "ok" THEN get_auth(d)
    ELSE IF d.auth.auth_type = "bot" THEN "ok"
    ELSE IF d.auth.auth_type = "user" /\ d.guild_id # "" THEN "verify"
    ELSE "403"

Dependency(name, d) ==
    IF name = "get_current_user" THEN get_current_user(d)
    ELSE IF name = "bot_only_operation" THEN bot_only_operation(d)
    ELSE IF name = "require_permission" THEN require_permission(d)
    ELSE "ok"

----------------------------------------------------------------------------
(* The permission cache *)

\* Mutant: an entry lives one second too long
ExpiredLate(entry, current_time) ==
    current_time - entry.cachedAt > PERMISSION_CACHE_TTL

Expired(entry, current_time) ==
    current_time - entry.cachedAt >= PERMISSION_CACHE_TTL

\* Mutant: the sweep is forgotten
CleanupNothing(c, current_time) == c

_cleanup_expired_cache(c, current_time) ==
    [key \in {k \in DOMAIN c : ~Expired(c[k], current_time)} |-> c[key]]

\* Mutant: a hit stamps the entry anew
VerifyStartRefreshOnHit(auth, guild_id, c, current_time) ==
    IF auth.discord_token = ""
    THEN [outcome |-> "403", cacheAfter |-> c, lookup |-> FALSE]
    ELSE IF <<auth.user_id, guild_id>> \in
                DOMAIN _cleanup_expired_cache(c, current_time)
    THEN [outcome |->
            IF _cleanup_expired_cache(c, current_time)[<<auth.user_id, guild_id>>].granted
            THEN "ok" ELSE "403",
          cacheAfter |->
            [_cleanup_expired_cache(c, current_time) EXCEPT
               ![<<auth.user_id, guild_id>>].cachedAt = current_time],
          lookup |-> TRUE]
    ELSE [outcome |-> "call",
          cacheAfter |-> _cleanup_expired_cache(c, current_time),
          lookup |-> TRUE]

\* Mutant: the Discord token is looked at only on a cache miss
VerifyStartTokenOnMiss(auth, guild_id, c, current_time) ==
    IF <<auth.user_id, guild_id>> \in
           DOMAIN _cleanup_expired_cache(c, current_time)
    THEN [outcome |->
            IF _cleanup_expired_cache(c, current_time)[<<auth.user_id, guild_id>>].granted
            THEN "ok" ELSE "403",
          cacheAfter |-> _cleanup_expired_cache(c, current_time),
          lookup |-> TRUE]
    ELSE IF auth.discord_token = ""
    THEN [outcome |-> "403",
          cacheAfter |-> _cleanup_expired_cache(c, current_time),
          lookup |-> FALSE]
    ELSE [outcome |-> "call",
          cacheAfter |-> _cleanup_expired_cache(c, current_time),
          lookup |-> TRUE]

\* _verify_guild_admin_permission up to its await: "403" without a Discord
\* token, else sweep and look up: "ok" or "403" from the cache, "call" on a miss.
VerifyStart(auth, guild_id, c, current_time) ==
    IF auth.discord_token = ""
    THEN [outcome |-> "403", cacheAfter |-> c, lookup |-> FALSE]
    ELSE IF <<auth.user_id, guild_id>> \in
                DOMAIN _cleanup_expired_cache(c, current_time)
    THEN [outcome |->
            IF _cleanup_expired_cache(c, current_time)[<<auth.user_id, guild_id>>].granted
            THEN "ok" ELSE "403",
          cacheAfter |-> _cleanup_expired_cache(c, current_time),
          lookup |-> TRUE]
    ELSE [outcome |-> "call",
          cacheAfter |-> _cleanup_expired_cache(c, current_time),
          lookup |-> TRUE]

\* Mutant: the entry is stamped with the time after the await
CacheEntryStampedLate(has_permission, current_time, received) ==
    [granted |-> has_permission, cachedAt |-> received,
     obtainedAt |-> received]

\* The entry written after the await: the result with the time taken before it
CacheEntry(has_permission, current_time, received) ==
    [granted |-> has_permission, cachedAt |-> current_time,
     obtainedAt |-> received]

\* Discord's answer: int(permissions) & ADMIN_PERMISSION of the member's entry,
\* False when there is none or when the request fails
check_guild_permissions(key, memberships, up) ==
    /\ up
    /\ key \in DOMAIN memberships
    /\ (memberships[key] \div ADMIN_PERMISSION) % 2 = 1

----------------------------------------------------------------------------
(* The Discord guild check in detail: make_request, get_user_guilds and
   check_guild_permissions on what Discord sent.

   A Python int has no width: it is kept as hi * 2^30 + lo.  A JSON value is
   tagged with its type: [t |-> "int", hi |-> .., lo |-> ..],
   [t |-> "str", v |-> ..], [t |-> "null"], and [t |-> "missing"] for a key
   the object does not have. *)

Word == 2 ^ 30

PyInt(hi, lo) == [t |-> "int", hi |-> hi, lo |-> lo]
PyStr(v) == [t |-> "str", v |-> v]
PyNone == [t |-> "null"]
Missing == [t |-> "missing"]

\* The decimal numerals beyond 2^30 that occur: 2^32 + 8, 2^40 and 2^40 + 8
BigNumerals ==
    [ v \in {"4294967304", "1099511627776", "1099511627784"} |->
        IF v = "4294967304" THEN PyInt(4, 8)
        ELSE IF v = "1099511627776" THEN PyInt(1024, 0)
        ELSE PyInt(1024, 8) ]

SmallInts == 0..255

\* str(x) of an int or a str
str(x) ==
    IF x.t = "str" THEN x.v
    ELSE IF x.hi = 0 THEN ToString(x.lo)
    ELSE CHOOSE v \in DOMAIN BigNumerals : BigNumerals[v] = x

\* The numerals with a sign that occur: int() reads "+222" as 222
SignedNumerals ==
    [ v \in {"+111", "+222"} |->
        IF v = "+111" THEN PyInt(0, 111) ELSE PyInt(0, 222) ]

\* int(x): [raised, n]; ValueError on a string that is no numeral, TypeError
\* on None
int(x) ==
    IF x.t = "int" THEN [raised |-> FALSE, n |-> x]
    ELSE IF x.t = "str" /\ x.v \in DOMAIN BigNumerals
    THEN [raised |-> FALSE, n |-> BigNumerals[x.v]]
    ELSE IF x.t = "str" /\ x.v \in DOMAIN SignedNumerals
    THEN [raised |-> FALSE, n |-> SignedNumerals[x.v]]
    ELSE IF x.t = "str" /\ \E k \in SmallInts : ToString(k) = x.v
    THEN [raised |-> FALSE,
          n |-> PyInt(0, CHOOSE k \in SmallInts : ToString(k) = x.v)]
    ELSE [raised |-> TRUE, n |-> PyInt(0, 0)]

\* a & b of two naturals below 2^30, bit by bit
RECURSIVE BitAnd(_, _)
BitAnd(a, b) ==
    IF a = 0 \/ b = 0 THEN 0
    ELSE (a % 2) * (b % 2) + 2 * BitAnd(a \div 2, b \div 2)

\* dict.get("permissions", 0)
GetPermissions(guild) ==
    IF guild.permissions.t = "missing" THEN PyInt(0, 0) ELSE guild.permissions

\* next((guild for guild in user_guilds if str(guild["id"]) == str(guild_id)),
\* None): the index of the first match, 0 for None, -1 when guild["id"] raises
\* KeyError on the way
RECURSIVE TargetGuild(_, _, _)
TargetGuild(user_guilds, guild_id, i) ==
    IF i > Len(user_guilds) THEN 0
    ELSE IF user_guilds[i].id.t = "missing" THEN 0 - 1
    ELSE IF str(user_guilds[i].id) = str(guild_id) THEN i
    ELSE TargetGuild(user_guilds, guild_id, i + 1)

\* Mutant: the permissions have to be exactly the administrator bit
HasAdminExactly(permissions) ==
    permissions.hi = 0 /\ permissions.lo = ADMIN_PERMISSION

\* bool(permissions & ADMIN_PERMISSION); ADMIN_PERMISSION is below 2^30
has_admin(permissions) == BitAnd(permissions.lo, ADMIN_PERMISSION) # 0

\* make_request and get_user_guilds on Discord's reply: the parsed body, or an
\* exception (network error, a body that is no JSON, a status other than 200
\* and 201)
get_user_guilds(reply) ==
    IF reply.kind = "network_error" THEN [raised |-> TRUE, data |-> <<>>]
    ELSE IF reply.json = "unparsable" THEN [raised |-> TRUE, data |-> <<>>]
    ELSE IF reply.status \notin {200, 201} THEN [raised |-> TRUE, data |-> <<>>]
    ELSE [raised |-> FALSE, data |-> reply.items]

\* The try block of check_guild_permissions: [raised, value].  A JSON object
\* in place of the list has no guild to find (empty) or raises TypeError.
CheckGuildTry(reply, guild_id) ==
    LET fetched == get_user_guilds(reply)
        target == TargetGuild(fetched.data, guild_id, 1)
    IN  IF fetched.raised THEN [raised |-> TRUE, value |-> FALSE]
        ELSE IF reply.json # "list"
        THEN [raised |-> Len(fetched.data) > 0, value |-> FALSE]
        ELSE IF target < 0 THEN [raised |-> TRUE, value |-> FALSE]
        ELSE IF target = 0 THEN [raised |-> FALSE, value |-> FALSE]
        ELSE IF int(GetPermissions(fetched.data[target])).raised
        THEN [raised |-> TRUE, value |-> FALSE]
        ELSE [raised |-> FALSE,
              value |-> has_admin(int(GetPermissions(fetched.data[target])).n)]

\* Mutant: the except clause is missing and the exception reaches the caller
CheckGuildNoExcept(reply, guild_id) == CheckGuildTry(reply, guild_id)

\* check_guild_permissions on Discord's reply: the try block, and False for
\* every exception raised in it
checkGuildAdmin(reply, guild_id) ==
    IF CheckGuildTry(reply, guild_id).raised
    THEN [raised |-> FALSE, value |-> FALSE]
    ELSE CheckGuildTry(reply, guild_id)

----------------------------------------------------------------------------
(* Requests *)

SignedToken(user, discord_access_token, exp) ==
    [form |-> "signed", user_id |-> user, username |-> "alice",
     discord_access_token |-> discord_access_token, exp |-> exp]

\* Credentials a client can present at time t: garbage, a token signed with
\* another secret, one minted more than 24 hours ago, fresh ones
Tokens(t) ==
    { [NoToken EXCEPT !.form = "malformed"],
      [SignedToken("u1", "T", t + TokenLifetime) EXCEPT !.form = "badsig"] }
    \cup { SignedToken(u, "T", t - 1) : u \in Users }
    \cup { SignedToken(u, x, t + TokenLifetime) : u \in Users, x \in {"T", ""} }

Authorizations(t) ==
    { [scheme |-> "", token |-> NoToken],
      [scheme |-> "Basic", token |-> NoToken],
      [scheme |-> "Bearer", token |-> NoToken] }
    \cup { [scheme |-> "Bearer", token |-> tk] : tk \in Tokens(t) }

ApiKeyHeaders == { <<>>, <<"">>, <<"key1">>, <<"wrong">> }

GuildPath(seg, res) == <<"api", "guilds", seg, res>>

Target(method, path, guild_id_param) ==
    [method |-> method, path |-> path, guild_id_param |-> guild_id_param]

Targets ==
    { Target("OPTIONS", GuildPath("111", "data"), ""),
      Target("GET", <<"health">>, ""),
      Target("GET", <<"api", "auth", "me">>, ""),
      Target("POST", <<"api", "auth", "logout">>, ""),
      Target("GET", <<"api", "auth", "guilds">>, ""),
      Target("GET", <<"api", "nowhere">>, ""),
      Target("GET", GuildPath("abc", "data"), ""),
      Target("GET", GuildPath("abc", "data"), "222"),
      Target("POST", GuildPath("111", "data"), ""),
      Target("POST", GuildPath("222", "images"), ""),
      Target("POST", GuildPath("abc", "images"), ""),
      Target("DELETE", GuildPath("222", "preferences"), "") }
    \cup { Target("GET", GuildPath(g, "data"), "") : g \in Guilds }

Request(target, api_key, authorization) ==
    [method |-> target.method, path |-> target.path,
     guild_id_param |-> target.guild_id_param,
     api_key |-> api_key, authorization |-> authorization]

Requests(t) ==
    { Request(tg, k, a) : tg \in Targets, k \in ApiKeyHeaders,
                          a \in Authorizations(t) }

\* The requests of the guild-admin check: a guild route behind
\* require_permission, from the bot and from logged-in users
GateRequests ==
    { Request(Target("GET", GuildPath(g, "data"), ""), <<>>,
              [scheme |-> "Bearer",
               token |-> SignedToken(u, x, TokenLifetime)]) :
        g \in Guilds \cup {"abc"}, u \in Users, x \in {"T", ""} }
    \cup
    { Request(Target("GET", GuildPath(g, "data"), ""), <<"key1">>,
              [scheme |-> "", token |-> NoToken]) : g \in {"111", "abc"} }

StaleRequests ==
    { Request(Target("GET", GuildPath("111", "data"), ""), <<>>,
              [scheme |-> "Bearer",
               token |-> SignedToken("u1", "T", TokenLifetime)]) }

----------------------------------------------------------------------------
(* State *)

Idle == [pc |-> "idle"]

\* nothing under examination
NoProbe == [op |-> "none"]

\* At the start the user administers guild 111 and is no member of guild 222
MainKey == <<"u1", "111">>
OtherKey == <<"u1", "222">>

InFlight(key) == \E s \in Slots : calls[s].pc # "idle" /\ calls[s].key = key

IsAdmin(key, memberships, up) == check_guild_permissions(key, memberships, up)

\* since when the user has been admin of the guild with Discord answering
GoodSince(key, memberships, up, t) ==
    IF ~IsAdmin(key, memberships, up) THEN NoTime
    ELSE IF goodSince[key] # NoTime THEN goodSince[key]
    ELSE t

Init ==
    /\ now = 0
    /\ ticks = 0
    /\ cache = << >>
    /\ calls = [s \in Slots |-> Idle]
    /\ perms = [k \in {MainKey} |-> ADMIN_PERMISSION]
    /\ upstreamUp = TRUE
    /\ resp = {}
    /\ lastInvoke = [k \in Keys |-> NoTime]
    /\ overlapped = [k \in Keys |-> FALSE]
    /\ goodSince = [k \in Keys |-> IF IsAdmin(k, perms, TRUE) THEN 0 ELSE NoTime]
    /\ probe = NoProbe

\* What the request meets on its way, up to the first await: the middleware,
\* the router, the route's dependency and the permission cache.
Handle(request, t, c) ==
    LET d == dispatch(request, t)
        rt == Route(request)
        dep == Dependency(rt.dependency, d)
        v == VerifyStart(d.auth, d.guild_id, c, t)
    IN  IF ~d.pass
        THEN [outcome |-> "401", source |-> "middleware", d |-> d,
              dependency |-> "", cacheAfter |-> c, lookup |-> FALSE]
        ELSE IF ~rt.found
        THEN [outcome |-> "404", source |-> "router", d |-> d,
              dependency |-> "", cacheAfter |-> c, lookup |-> FALSE]
        ELSE IF dep \in {"401", "403"}
        THEN [outcome |-> dep, source |-> "dependency", d |-> d,
              dependency |-> rt.dependency, cacheAfter |-> c, lookup |-> FALSE]
        ELSE IF dep = "verify"
        THEN [outcome |-> v.outcome,
              source |-> IF v.lookup THEN "cache" ELSE "dependency", d |-> d,
              dependency |-> rt.dependency, cacheAfter |-> v.cacheAfter,
              lookup |-> v.lookup]
        ELSE IF ~rt.valid
        THEN [outcome |-> "422", source |-> "router", d |-> d,
              dependency |-> rt.dependency, cacheAfter |-> c, lookup |-> FALSE]
        ELSE [outcome |-> "ok", source |-> "dependency", d |-> d,
              dependency |-> rt.dependency, cacheAfter |-> c, lookup |-> FALSE]

StatusOf(outcome) ==
    IF outcome = "ok" THEN 200
    ELSE IF outcome = "401" THEN 401
    ELSE IF outcome = "403" THEN 403
    ELSE IF outcome = "404" THEN 404
    ELSE 422

\* The response record: what was asked, what was answered, whether the route
\* handler ran, and what the permission check saw when it started
Response(request, d, dependency, lookup, outcome, source, start, preAge, prevInvoke, overlap, entryObtained, invoked) ==
    [request |-> request, status |-> StatusOf(outcome),
     handler |-> (outcome = "ok"), source |-> source,
     auth |-> d.auth, hasState |-> d.hasState, guild_id |-> d.guild_id,
     detail |-> d.detail, dependency |-> dependency,
     lookup |-> lookup, start |-> start, preAge |-> preAge,
     prevInvoke |-> prevInvoke, overlap |-> overlap,
     entryObtained |-> entryObtained, invoked |-> invoked]

KeyOf(h) == <<h.d.auth.user_id, h.d.guild_id>>

AgeIn(c, key, t) == IF key \in DOMAIN c THEN t - c[key].cachedAt ELSE NoTime

\* A request arrives and runs until it responds or awaits Discord (slot s)
Serve(request, s) ==
    /\ resp = {}
    /\ calls[s].pc = "idle"
    /\ \E h \in {Handle(request, now, cache)} :
         LET key == KeyOf(h)
         IN
           /\ cache' = h.cacheAfter
           /\ IF h.outcome = "call"
              THEN /\ calls' = [calls EXCEPT ![s] =
                         [pc |-> "calling", request |-> request, d |-> h.d,
                          key |-> key, current_time |-> now,
                          has_permission |-> FALSE,
                          preAge |-> AgeIn(cache, key, now),
                          prevInvoke |-> lastInvoke[key],
                          overlap |-> overlapped[key] \/ InFlight(key)]]
                   /\ resp' = {}
                   /\ lastInvoke' = [lastInvoke EXCEPT ![key] = now]
                   /\ overlapped' = [overlapped EXCEPT
                                       ![key] = @ \/ InFlight(key)]
              ELSE /\ calls' = calls
                   /\ resp' = { Response(request, h.d, h.dependency, h.lookup,
                                  h.outcome, h.source, now,
                                  IF h.lookup THEN AgeIn(cache, key, now)
                                  ELSE NoTime,
                                  IF h.lookup THEN lastInvoke[key] ELSE NoTime,
                                  IF h.lookup
                                  THEN overlapped[key] \/ InFlight(key)
                                  ELSE FALSE,
                                  IF h.lookup
                                  THEN h.cacheAfter[key].obtainedAt
                                  ELSE NoTime,
                                  FALSE) }
                   /\ lastInvoke' = lastInvoke
                   /\ overlapped' =
                        IF h.lookup
                        THEN [overlapped EXCEPT ![key] = @ \/ InFlight(key)]
                        ELSE overlapped
    /\ UNCHANGED <<now, ticks, perms, upstreamUp, goodSince, probe>>

\* Discord answers the guild query of the call in slot s
Upstream(s) ==
    /\ resp = {}
    /\ calls[s].pc = "calling"
    /\ calls' = [calls EXCEPT ![s] =
           [@ EXCEPT !.pc = "responded",
                     !.has_permission =
                         check_guild_permissions(calls[s].key, perms, upstreamUp)]]
    /\ resp' = {}
    /\ UNCHANGED <<now, ticks, cache, perms, upstreamUp, lastInvoke,
                   overlapped, goodSince, probe>>

\* Mutant: the result is not stored
ReturnNoStore(s) ==
    /\ resp = {}
    /\ calls[s].pc = "responded"
    /\ resp' = { Response(calls[s].request, calls[s].d,
                   "require_permission", TRUE,
                   IF calls[s].has_permission THEN "ok" ELSE "403",
                   "discord", calls[s].current_time, calls[s].preAge,
                   calls[s].prevInvoke, calls[s].overlap, NoTime, TRUE) }
    /\ calls' = [calls EXCEPT ![s] = Idle]
    /\ UNCHANGED <<now, ticks, cache, perms, upstreamUp, lastInvoke,
                   overlapped, goodSince, probe>>

\* Mutant: only grants are stored
ReturnStoresGrantsOnly(s) ==
    /\ resp = {}
    /\ calls[s].pc = "responded"
    /\ cache' = IF calls[s].has_permission
                THEN [k \in DOMAIN cache \cup {calls[s].key} |->
                        IF k = calls[s].key
                        THEN CacheEntry(calls[s].has_permission,
                                        calls[s].current_time, now)
                        ELSE cache[k]]
                ELSE cache
    /\ resp' = { Response(calls[s].request, calls[s].d,
                   "require_permission", TRUE,
                   IF calls[s].has_permission THEN "ok" ELSE "403",
                   "discord", calls[s].current_time, calls[s].preAge,
                   calls[s].prevInvoke, calls[s].overlap, NoTime, TRUE) }
    /\ calls' = [calls EXCEPT ![s] = Idle]
    /\ UNCHANGED <<now, ticks, perms, upstreamUp, lastInvoke, overlapped,
                   goodSince, probe>>

\* The await returns: cache the result under the time taken before the call,
\* then allow or raise FORBIDDEN
Return(s) ==
    /\ resp = {}
    /\ calls[s].pc = "responded"
    /\ cache' = [k \in DOMAIN cache \cup {calls[s].key} |->
                   IF k = calls[s].key
                   THEN CacheEntry(calls[s].has_permission,
                                   calls[s].current_time, now)
                   ELSE cache[k]]
    /\ resp' = { Response(calls[s].request, calls[s].d,
                   "require_permission", TRUE,
                   IF calls[s].has_permission THEN "ok" ELSE "403",
                   "discord", calls[s].current_time, calls[s].preAge,
                   calls[s].prevInvoke, calls[s].overlap, NoTime, TRUE) }
    /\ calls' = [calls EXCEPT ![s] = Idle]
    /\ UNCHANGED <<now, ticks, perms, upstreamUp, lastInvoke, overlapped,
                   goodSince, probe>>

\* The clock advances
Tick(d) ==
    /\ resp = {}
    /\ ticks < MaxTicks
    /\ now' = now + d
    /\ ticks' = ticks + 1
    /\ resp' = {}
    /\ UNCHANGED <<cache, calls, perms, upstreamUp, lastInvoke, overlapped,
                   goodSince, probe>>

\* A guild's permissions of the user change on Discord
SetPermissions(key, p) ==
    /\ resp = {}
    /\ IF key \in DOMAIN perms THEN perms[key] # p ELSE TRUE
    /\ perms' = [k \in DOMAIN perms \cup {key} |->
                   IF k = key THEN p ELSE perms[k]]
    /\ goodSince' = [goodSince EXCEPT
                       ![key] = GoodSince(key, perms', upstreamUp, now)]
    /\ resp' = {}
    /\ UNCHANGED <<now, ticks, cache, calls, upstreamUp, lastInvoke, overlapped, probe>>

\* The Discord API goes down or comes back
UpstreamFlip ==
    /\ resp = {}
    /\ upstreamUp' = ~upstreamUp
    /\ goodSince' = [k \in Keys |-> GoodSince(k, perms, upstreamUp', now)]
    /\ resp' = {}
    /\ UNCHANGED <<now, ticks, cache, calls, perms, lastInvoke, overlapped, probe>>

\* The response of the last step goes out to the client
Deliver ==
    /\ resp # {}
    /\ resp' = {}
    /\ UNCHANGED <<now, ticks, cache, calls, perms, upstreamUp, lastInvoke,
                   overlapped, goodSince, probe>>

Quiescent == \A s \in Slots : calls[s].pc = "idle"

FreeSlot == Least({s \in Slots : calls[s].pc = "idle"})

\* The server taking one request at a time, all kinds of requests
Next ==
    \/ \E request \in Requests(now) : Quiescent /\ Serve(request, 1)
    \/ \E s \in Slots : Upstream(s)
    \/ \E s \in Slots : Return(s)
    \/ Deliver

Spec == Init /\ [][Next]_vars

\* The guild-admin check under concurrent requests and a moving clock, with
\* Discord's answers fixed
NextGate ==
    \/ \E request \in GateRequests :
          (\E s \in Slots : calls[s].pc = "idle") /\ Serve(request, FreeSlot)
    \/ \E s \in Slots : Upstream(s)
    \/ \E s \in Slots : Return(s)
    \/ \E d \in TickSteps : Tick(d)
    \/ Deliver

SpecGate == Init /\ [][NextGate]_vars

\* Concurrent checks of one user for one guild while the user's permissions
\* and the availability of Discord change
NextStale ==
    \/ \E request \in StaleRequests :
          (\E s \in Slots : calls[s].pc = "idle") /\ Serve(request, FreeSlot)
    \/ \E s \in Slots : Upstream(s)
    \/ \E s \in Slots : Return(s)
    \/ \E d \in TickSteps : Tick(d)
    \/ \E p \in PermValues : SetPermissions(MainKey, p)
    \/ UpstreamFlip
    \/ Deliver

SpecStale == Init /\ [][NextStale]_vars

----------------------------------------------------------------------------
(* Claims about the dispatcher and the route dependencies, under Spec *)

Protected(request) ==
    request.method # "OPTIONS" /\ ~_is_public_route(request.path)

CarriesValidKey(request) ==
    request.api_key # <<>> /\ request.api_key[1] \in API_KEYS

CarriesValidBearer(request, t) ==
    /\ request.authorization.scheme = "Bearer"
    /\ request.authorization.token.form # "empty"
    /\ verify_jwt_token(request.authorization.token, t).ok

GuildScoped(request) ==
    Len(request.path) >= 4 /\ SubSeq(request.path, 1, 2) = <<"api", "guilds">>

\* C1: on a protected request (not OPTIONS, not a public path) the route
\* handler runs only if the request carried a configured service key or a
\* Bearer token that verify_jwt_token accepts; with neither, the middleware
\* answers 401 and the handler does not run.
C1_HandlerNeedsCredential ==
    \A r \in resp :
        Protected(r.request) =>
            /\ r.handler =>
                 \/ CarriesValidKey(r.request)
                 \/ CarriesValidBearer(r.request, r.start)
            /\ ~(CarriesValidKey(r.request)
                 \/ CarriesValidBearer(r.request, r.start)) =>
                 /\ r.status = 401
                 /\ r.source = "middleware"
                 /\ ~r.handler

\* A guild route asked with a token signed by another secret: 401, no handler
C1_Witness ==
    \E r \in resp :
        /\ Protected(r.request)
        /\ GuildScoped(r.request)
        /\ r.request.api_key = <<>>
        /\ r.request.authorization.token.form = "badsig"
        /\ r.status = 401
        /\ ~r.handler

\* C2 as claimed: whenever the service-key header is present on a protected
\* request the key alone decides: a configured key gives the Service context
\* plana_bot / Plana Bot, any other key is rejected with 401.
C2_KeyHeaderPresentDecides ==
    \A r \in resp :
        (Protected(r.request) /\ r.request.api_key # <<>>) =>
            IF r.request.api_key[1] \in API_KEYS
            THEN /\ r.hasState
                 /\ r.auth.auth_type = "bot"
                 /\ r.auth.user_id = "plana_bot"
                 /\ r.auth.username = "Plana Bot"
            ELSE r.status = 401 /\ r.source = "middleware"

\* C2 amended: whenever the service-key header is present with a non-empty
\* value the key alone decides, whatever the Authorization header holds; a
\* HumanUser context arises only when the header is absent or empty.
C2_NonEmptyKeyDecides ==
    \A r \in resp :
        Protected(r.request) =>
            /\ (r.request.api_key # <<>> /\ r.request.api_key[1] # "") =>
                 IF r.request.api_key[1] \in API_KEYS
                 THEN /\ r.hasState
                      /\ r.auth.auth_type = "bot"
                      /\ r.auth.user_id = "plana_bot"
                      /\ r.auth.username = "Plana Bot"
                      /\ r.auth.discord_token = ""
                 ELSE r.status = 401 /\ r.source = "middleware" /\ ~r.handler
            /\ r.auth.auth_type = "user" =>
                 (r.request.api_key = <<>> \/ r.request.api_key[1] = "")

\* An unknown key together with a valid Bearer token: rejected
C2_Witness ==
    \E r \in resp :
        /\ Protected(r.request)
        /\ r.request.api_key = <<"wrong">>
        /\ CarriesValidBearer(r.request, r.start)
        /\ r.status = 401
        /\ ~r.handler

\* C4: bot_only_operation passes exactly for a Service context: a bot is let
\* through to the handler, a HumanUser gets 403, whatever the user's guild
\* permissions and whatever the permission cache holds.
C4_ServiceOnly ==
    \A r \in resp :
        (r.dependency = "bot_only_operation" /\ r.hasState) =>
            /\ r.auth.auth_type = "bot" => (r.status = 200 /\ r.handler)
            /\ r.auth.auth_type = "user" => (r.status = 403 /\ ~r.handler)
            /\ r.handler <=> r.auth.auth_type = "bot"

\* A user who administers guild 111, with the grant in the cache, is refused
\* on the bot-only POST /api/guilds/111/data
C4_Witness ==
    \E r \in resp :
        /\ r.dependency = "bot_only_operation"
        /\ r.auth.auth_type = "user"
        /\ r.auth.discord_token # ""
        /\ <<r.auth.user_id, r.guild_id>> \in DOMAIN cache
        /\ cache[<<r.auth.user_id, r.guild_id>>].granted
        /\ check_guild_permissions(<<r.auth.user_id, r.guild_id>>, perms, upstreamUp)
        /\ r.status = 403

\* the routes of the logged-in user
CurrentUserRoute(request) ==
    /\ request.path \in { <<"api", "auth", "me">>, <<"api", "auth", "logout">>,
                          <<"api", "auth", "guilds">> }
    /\ Route(request).found

\* C19: the handlers of GET /auth/me, POST /auth/logout and GET /auth/guilds
\* run only for a request whose request.state.auth is a user: a bot gets 403,
\* a request without request.state.auth gets 401; no guild id is needed and
\* the guild-admin check is not made.
C19_CurrentUserRoutesNeedUser ==
    \A r \in resp :
        CurrentUserRoute(r.request) =>
            /\ r.handler <=> (r.hasState /\ r.auth.auth_type = "user")
            /\ (r.hasState /\ r.auth.auth_type = "bot") => r.status = 403
            /\ ~r.hasState => r.status = 401
            /\ ~r.lookup /\ ~r.invoked
            /\ r.dependency \in {"", "get_current_user"}

\* The bot asks for GET /api/auth/guilds and gets 403
C19_Witness ==
    \E r \in resp :
        /\ r.request.path = <<"api", "auth", "guilds">>
        /\ r.request.method = "GET"
        /\ r.auth.auth_type = "bot"
        /\ r.dependency = "get_current_user"
        /\ r.status = 403
        /\ ~r.handler

\* C6 as claimed: the handler of a guild-scoped route /api/guilds/{id}/...
\* runs for a HumanUser only after require_permission has allowed the request.
C6_GuildRoutesCheckAdmin ==
    \A r \in resp :
        (GuildScoped(r.request) /\ r.handler /\ r.auth.auth_type = "user") =>
            r.dependency = "require_permission"

----------------------------------------------------------------------------
(* Claims about require_permission and the permission cache *)

\* a response of require_permission for a user holding a Discord token and
\* asking for a guild: the cases that reach the cache
Checked(r) == r.dependency = "require_permission" /\ r.lookup

Hit(r) == Checked(r) /\ ~r.invoked

KeyOfResponse(r) == <<r.auth.user_id, r.guild_id>>

NoExpiredEntry(c, t) ==
    \A k \in DOMAIN c : t - c[k].cachedAt < PERMISSION_CACHE_TTL

\* C3 (SpecGate): require_permission lets every Service context through, with
\* or without a guild id, and the step neither sweeps nor writes the
\* permission cache nor starts a call to Discord.
C3_ServiceAlwaysAllowed ==
    [][ \A r \in resp' :
          (resp = {} /\ r.dependency = "require_permission"
             /\ r.auth.auth_type = "bot") =>
              /\ r.status = 200
              /\ r.handler
              /\ cache' = cache
              /\ calls' = calls
              /\ lastInvoke' = lastInvoke ]_vars

\* The bot is allowed on a path without a guild id while an expired entry sits
\* in the cache
C3_Witness ==
    \E r \in resp :
        /\ r.dependency = "require_permission"
        /\ r.auth.auth_type = "bot"
        /\ r.guild_id = ""
        /\ r.status = 200
        /\ \E k \in DOMAIN cache : Expired(cache[k], now)

\* C5 (SpecGate): a HumanUser context without a Discord token is refused with
\* 403 by require_permission for every guild, also while the cache holds an
\* unexpired grant for the same user and guild, and the refusal leaves the
\* cache as it was (no sweep, no lookup, no call).
C5_NoTokenDenied ==
    [][ \A r \in resp' :
          (resp = {} /\ r.dependency = "require_permission"
             /\ r.auth.auth_type = "user" /\ r.auth.discord_token = "") =>
              /\ r.status = 403
              /\ ~r.handler
              /\ cache' = cache
              /\ calls' = calls
              /\ lastInvoke' = lastInvoke ]_vars

\* Refused although the cache holds a live grant for the same key; an expired
\* entry of another key is still there
C5_Witness ==
    \E r \in resp :
        /\ r.dependency = "require_permission"
        /\ r.auth.auth_type = "user"
        /\ r.auth.discord_token = ""
        /\ r.status = 403
        /\ KeyOfResponse(r) \in DOMAIN cache
        /\ cache[KeyOfResponse(r)].granted
        /\ ~Expired(cache[KeyOfResponse(r)], now)
        /\ \E k \in DOMAIN cache : Expired(cache[k], now)

C8_SweepBeforeLookup ==
    [][ /\ \A r \in resp' :
              (resp = {} /\ Hit(r)) =>
                  /\ NoExpiredEntry(cache', now)
                  /\ r.preAge >= 0
                  /\ r.preAge < PERMISSION_CACHE_TTL
        /\ \A s \in Slots :
              (calls[s].pc = "idle" /\ calls'[s].pc = "calling") =>
                  /\ NoExpiredEntry(cache', now)
                  /\ calls'[s].key \notin DOMAIN cache'
                  /\ \/ calls'[s].preAge = NoTime
                     \/ calls'[s].preAge >= PERMISSION_CACHE_TTL ]_vars

\* A hit on guild 111 after the check of guild 222, stored 60 seconds or more
\* ago, was swept by a lookup of guild 111
C8_Witness ==
    \E r \in resp :
        /\ Hit(r)
        /\ KeyOfResponse(r) = MainKey
        /\ lastInvoke[OtherKey] # NoTime
        /\ now - lastInvoke[OtherKey] >= PERMISSION_CACHE_TTL
        /\ ~InFlight(OtherKey)
        /\ OtherKey \notin DOMAIN cache

\* C9 (SpecStale): a request allowed from the cache rests on an answer of
\* Discord received less than 60 seconds before, also when concurrent misses
\* raced for the entry.
C9_GrantWithinTtl ==
    \A r \in resp :
        (Hit(r) /\ r.status = 200) =>
            /\ r.entryObtained # NoTime
            /\ now - r.entryObtained >= 0
            /\ now - r.entryObtained < PERMISSION_CACHE_TTL

\* Allowed from an entry that overlapping calls wrote, a second or more after
\* Discord's answer came in
C9_Witness ==
    \E r \in resp :
        /\ Hit(r)
        /\ r.status = 200
        /\ r.overlap
        /\ now - r.entryObtained > 0

\* C10 (SpecStale): when the user has been administrator of the guild, and
\* Discord reachable, since time T, every check that starts at T + 60 or later
\* is allowed, whatever calls for the key ran or are running.
C10_StaleDenialBounded ==
    \A r \in resp :
        (Checked(r) /\ goodSince[KeyOfResponse(r)] # NoTime
           /\ r.start >= goodSince[KeyOfResponse(r)] + PERMISSION_CACHE_TTL) =>
            r.status = 200 /\ r.handler

\* Allowed 60 seconds or more after a grant that came after the start, with
\* other calls for the key having overlapped
C10_Witness ==
    \E r \in resp :
        /\ Checked(r)
        /\ goodSince[KeyOfResponse(r)] > 0
        /\ r.start >= goodSince[KeyOfResponse(r)] + PERMISSION_CACHE_TTL
        /\ r.overlap
        /\ r.status = 200

----------------------------------------------------------------------------
(* The functions of the subsystem applied to inputs chosen at the start *)

MaxGuilds == 2

\* get_user_guilds entries: the id as Discord sends it (a string) or as an
\* integer, the permissions in the forms Discord has used, the owner flag
GuildIdValues == { PyStr("111"), PyInt(0, 111), PyStr("222") }

PermissionValues ==
    { Missing, PyInt(0, 0), PyInt(0, 1), PyInt(0, 8), PyStr("8"), PyStr("9"),
      PyStr("1099511627776"), PyStr("1099511627784"), PyStr("abc") }

GuildEntries ==
    [ id : GuildIdValues, permissions : PermissionValues, owner : BOOLEAN ]

GuildLists == UNION { [1..n -> GuildEntries] : n \in 0..MaxGuilds }

\* a 200 response of Discord carrying this list
OkReply(items) ==
    [kind |-> "http", status |-> 200, json |-> "list", items |-> items]

CheckGuildProbes ==
    { [op |-> "check_guild_permissions", reply |-> OkReply(l), guild_id |-> g,
       done |-> FALSE, output |-> [raised |-> FALSE, value |-> FALSE]] :
        l \in GuildLists, g \in {PyStr("111"), PyStr("222")} }

\* paths at, below, beside and far below the public routes
PathSamples ==
    { Root, <<"health">>, <<"health", "">>, <<"healthz">>, <<"foo">>,
      <<"", "health">>, <<"docs">>, <<"docs", "oauth2-redirect">>,
      <<"docs", "a", "b">>, <<"api">>, <<"api", "auth">>,
      <<"api", "auth", "me">>, <<"api", "auth", "callback">>,
      <<"api", "auth", "callback", "extra">>,
      <<"api", "auth", "callback", "extra", "more">>,
      <<"api", "guilds", "111", "data">> }

PublicProbes ==
    { [op |-> "_is_public_route", path |-> path, done |-> FALSE,
       output |-> FALSE] : path \in PathSamples }

\* paths with and without a guild id, with nothing or a slash after it
GuildPathSamples ==
    { <<"api", "guilds", "111", "data">>, <<"api", "guilds", "111">>,
      <<"api", "guilds", "111", "">>, <<"api", "guilds", "abc", "data">>,
      <<"api", "guilds">>, <<"guilds", "111", "data">>,
      <<"v2", "api", "guilds", "222", "rss", "5">>,
      <<"api", "guilds", "abc", "api", "guilds", "222", "data">>,
      <<"api", "guilds", "111", "api", "guilds", "222", "data">>,
      <<"api", "users", "111">>, <<"health">> }

ExtractProbes ==
    { [op |-> "_extract_guild_id",
       request |-> Request(Target("GET", path, q), <<>>,
                           [scheme |-> "", token |-> NoToken]),
       done |-> FALSE, output |-> ""] :
        path \in GuildPathSamples, q \in {"", "222", "abc"} }

Gates == {"get_current_user", "bot_only_operation", "require_permission"}

\* requests that the middleware lets through: OPTIONS to protected and public
\* paths with any credentials, and requests to public paths
PassedRequests ==
    { Request(Target("OPTIONS", path, ""), k, a) :
        path \in { GuildPath("111", "data"), <<"api", "auth", "me">>,
                   <<"health">> },
        k \in ApiKeyHeaders, a \in Authorizations(0) }
    \cup
    { Request(Target("GET", path, "111"), k, a) :
        path \in { <<"health">>, <<"api", "auth", "callback", "extra">> },
        k \in ApiKeyHeaders, a \in Authorizations(0) }

GateProbes ==
    { [op |-> "gate", request |-> request, dependency |-> g, done |-> FALSE,
       output |-> [d |-> dispatch(request, 0), outcome |-> ""]] :
        request \in PassedRequests, g \in Gates }

FnProbes == CheckGuildProbes \cup PublicProbes \cup ExtractProbes \cup GateProbes

InitFns ==
    /\ now = 0
    /\ ticks = 0
    /\ cache = << >>
    /\ calls = [s \in Slots |-> Idle]
    /\ perms = [k \in {MainKey} |-> ADMIN_PERMISSION]
    /\ upstreamUp = TRUE
    /\ resp = {}
    /\ lastInvoke = [k \in Keys |-> NoTime]
    /\ overlapped = [k \in Keys |-> FALSE]
    /\ goodSince = [k \in Keys |-> NoTime]
    /\ probe \in FnProbes

\* discord_oauth.check_guild_permissions(guild_id, token) on the reply
ApplyCheckGuildAdmin ==
    /\ probe.op = "check_guild_permissions"
    /\ ~probe.done
    /\ probe' = [probe EXCEPT !.done = TRUE,
                   !.output = checkGuildAdmin(probe.reply, probe.guild_id)]
    /\ UNCHANGED <<now, ticks, cache, calls, perms, upstreamUp, resp,
                   lastInvoke, overlapped, goodSince>>

\* self._is_public_route(request.url.path)
ApplyIsPublic ==
    /\ probe.op = "_is_public_route"
    /\ ~probe.done
    /\ probe' = [probe EXCEPT !.done = TRUE,
                              !.output = _is_public_route(probe.path)]
    /\ UNCHANGED <<now, ticks, cache, calls, perms, upstreamUp, resp,
                   lastInvoke, overlapped, goodSince>>

\* self._extract_guild_id(request)
ApplyExtractGuildId ==
    /\ probe.op = "_extract_guild_id"
    /\ ~probe.done
    /\ probe' = [probe EXCEPT !.done = TRUE,
                              !.output = _extract_guild_id(probe.request)]
    /\ UNCHANGED <<now, ticks, cache, calls, perms, upstreamUp, resp,
                   lastInvoke, overlapped, goodSince>>

\* dispatch passes the request on and a route dependency is evaluated on it
ApplyGate ==
    /\ probe.op = "gate"
    /\ ~probe.done
    /\ dispatch(probe.request, now).pass
    /\ probe' = [probe EXCEPT !.done = TRUE,
                   !.output = [d |-> dispatch(probe.request, now),
                               outcome |-> Dependency(probe.dependency,
                                               dispatch(probe.request, now))]]
    /\ UNCHANGED <<now, ticks, cache, calls, perms, upstreamUp, resp,
                   lastInvoke, overlapped, goodSince>>

NextFns ==
    \/ ApplyCheckGuildAdmin
    \/ ApplyIsPublic
    \/ ApplyExtractGuildId
    \/ ApplyGate

SpecFns == InitFns /\ [][NextFns]_vars

----------------------------------------------------------------------------
(* Claims about the functions, under SpecFns *)

\* the entries of the list whose id reads as the guild id
MatchingEntries(user_guilds, guild_id) ==
    { i \in 1..Len(user_guilds) : str(user_guilds[i].id) = str(guild_id) }

\* the entry's permissions read as an integer have the bit 0x8
AdminBitSet(guild) ==
    /\ ~int(GetPermissions(guild)).raised
    /\ (int(GetPermissions(guild)).n.lo \div 8) % 2 = 1

\* C11: check_guild_permissions returns True exactly when a membership entry
\* with the guild's id (compared as strings) exists and the first such entry
\* has bit 0x8 in its permissions read as an integer, whatever the other bits
\* and the owner flag; False with no matching entry, an empty list, missing
\* permissions and permissions such as 0 or 1.
C11_AdminBitOfFirstMatch ==
    (probe.op = "check_guild_permissions" /\ probe.done) =>
        /\ ~probe.output.raised
        /\ probe.output.value <=>
             /\ MatchingEntries(probe.reply.items, probe.guild_id) # {}
             /\ AdminBitSet(probe.reply.items[
                    Least(MatchingEntries(probe.reply.items, probe.guild_id))])

\* True for a member who is not the owner and whose permissions have the
\* administrator bit along with bit 40, listed after another guild
C11_Witness ==
    /\ probe.op = "check_guild_permissions"
    /\ probe.done
    /\ probe.output.value
    /\ Len(probe.reply.items) = 2
    /\ probe.reply.items[1].id = PyStr("222")
    /\ probe.reply.items[2] = [id |-> PyInt(0, 111),
                               permissions |-> PyStr("1099511627784"),
                               owner |-> FALSE]
    /\ probe.guild_id = PyStr("111")

\* the public routes other than "/" of which the path is a proper extension
PublicAbove(path) ==
    { route \in PUBLIC_ROUTES \ {Root} :
        \E k \in 1..(Len(path) - 1) : SubSeq(path, 1, k) = route }

\* C16 as claimed: _is_public_route(path) is true exactly when path is one of
\* the public paths or lies one path segment below a public path other than
\* the root; "/foo" is not public, "/api/auth/callback/extra" is.
C16_PublicOneSegmentBelow ==
    (probe.op = "_is_public_route" /\ probe.done) =>
        (probe.output <=>
            \/ probe.path \in PUBLIC_ROUTES
            \/ \E route \in PublicAbove(probe.path) :
                  Len(probe.path) = Len(route) + 1)

\* C16 amended: _is_public_route(path) is true exactly when path is one of
\* the public paths or lies any number of segments below a public path other
\* than the root; the root makes no other path public.
C16_PublicAnyDepthBelow ==
    (probe.op = "_is_public_route" /\ probe.done) =>
        /\ probe.output <=>
             (probe.path \in PUBLIC_ROUTES \/ PublicAbove(probe.path) # {})
        /\ probe.path \in {<<"foo">>, <<"", "health">>} => ~probe.output
        /\ probe.path = <<"api", "auth", "callback", "extra">> => probe.output

\* "/docs/a/b", two segments below "/docs", is public
C16_Witness ==
    /\ probe.op = "_is_public_route"
    /\ probe.done
    /\ probe.path = <<"docs", "a", "b">>
    /\ probe.output

\* C17: an OPTIONS request to any path, public or protected, whatever
\* credentials it carries, is passed on by dispatch with no request.state.auth;
\* every route dependency evaluated on a request without request.state.auth
\* answers 401.
C17_OptionsPassWithoutAuth ==
    (probe.op = "gate" /\ probe.done) =>
        /\ probe.request.method = "OPTIONS" =>
             /\ probe.output.d.pass
             /\ ~probe.output.d.hasState
             /\ probe.output.d.auth = NoAuth
        /\ ~probe.output.d.hasState => probe.output.outcome = "401"

\* OPTIONS to a guild route with the service key: passed on without
\* request.state.auth, and require_permission answers 401
C17_Witness ==
    /\ probe.op = "gate"
    /\ probe.done
    /\ probe.request.method = "OPTIONS"
    /\ probe.request.path = GuildPath("111", "data")
    /\ probe.request.api_key = <<"key1">>
    /\ probe.dependency = "require_permission"
    /\ ~probe.output.d.hasState
    /\ probe.output.outcome = "401"

\* the numeric segments right after a "guilds" segment
AfterGuilds(path) ==
    { i \in 2..Len(path) : path[i - 1] = "guilds" /\ path[i] \in DigitSegs }

\* the numeric segments right after "/api/guilds/" with a "/" after them
AfterApiGuildsBeforeSlash(path) ==
    { i \in 3..(Len(path) - 1) :
        SubSeq(path, i - 2, i - 1) = <<"api", "guilds">>
        /\ path[i] \in DigitSegs }

\* C18 as claimed: _extract_guild_id returns the numeric path segment right
\* after the /guilds/ segment whenever the path has one, whether or not
\* further segments follow and whatever the guild_id query parameter holds;
\* the query parameter only when the path has no such segment, none when
\* neither is there; "111" for "/api/guilds/111/data".
C18_GuildSegmentWins ==
    (probe.op = "_extract_guild_id" /\ probe.done) =>
        probe.output =
            (IF AfterGuilds(probe.request.path) # {}
             THEN probe.request.path[Least(AfterGuilds(probe.request.path))]
             ELSE probe.request.guild_id_param)

\* C18 amended: _extract_guild_id returns the leftmost numeric path segment
\* that comes right after "/api/guilds/" and has a "/" after it, whatever the
\* guild_id query parameter holds; without such a segment (also when nothing
\* follows the number, or /guilds/ does not follow /api) the query parameter,
\* and none when there is none; "111" for "/api/guilds/111/data".
C18_ApiGuildSegmentBeforeSlashWins ==
    (probe.op = "_extract_guild_id" /\ probe.done) =>
        /\ probe.output =
             (IF AfterApiGuildsBeforeSlash(probe.request.path) # {}
              THEN probe.request.path[
                       Least(AfterApiGuildsBeforeSlash(probe.request.path))]
              ELSE probe.request.guild_id_param)
        /\ probe.request.path = <<"api", "guilds", "111", "data">> =>
             probe.output = "111"

\* "/api/guilds/111?guild_id=222": nothing follows the number, the query
\* parameter is returned
C18_Witness ==
    /\ probe.op = "_extract_guild_id"
    /\ probe.done
    /\ probe.request.path = <<"api", "guilds", "111">>
    /\ probe.request.guild_id_param = "222"
    /\ probe.output = "222"

----------------------------------------------------------------------------
(* The server with a Discord that may answer anything or fail *)

AdminEntry(id, permissions) ==
    [id |-> id, permissions |-> permissions, owner |-> FALSE]

HttpReply(status, json, items) ==
    [kind |-> "http", status |-> status, json |-> json, items |-> items]

\* What GET /users/@me/guilds can come back with: no connection, an error
\* status with Discord's error object, a body that is no JSON, an object or a
\* list with entries that cannot be read, and proper lists
DiscordReplies ==
    { [kind |-> "network_error", status |-> 0, json |-> "unparsable",
       items |-> <<>>],
      HttpReply(401, "object", <<"message", "code">>),
      HttpReply(500, "unparsable", <<>>),
      HttpReply(429, "list", <<AdminEntry(PyStr("111"), PyStr("8"))>>),
      HttpReply(200, "unparsable", <<>>),
      HttpReply(200, "object", <<"message">>),
      HttpReply(200, "list", <<AdminEntry(PyStr("111"), PyStr("abc"))>>),
      HttpReply(200, "list", <<AdminEntry(PyStr("111"), PyNone)>>),
      HttpReply(200, "list", <<AdminEntry(Missing, PyStr("8")),
                               AdminEntry(PyStr("111"), PyStr("8"))>>),
      HttpReply(200, "list", <<>>),
      HttpReply(200, "list", <<AdminEntry(PyStr("111"), PyStr("1"))>>),
      HttpReply(200, "list", <<AdminEntry(PyStr("111"), PyStr("8"))>>),
      HttpReply(200, "list", <<AdminEntry(PyStr("222"), PyStr("9"))>>) }

\* Discord's reply reaches the call suspended in slot s, and
\* check_guild_permissions makes its answer of it
Fetch(s, reply) ==
    /\ resp = {}
    /\ calls[s].pc = "calling"
    /\ \E answer \in {checkGuildAdmin(reply, PyStr(calls[s].key[2]))} :
         /\ calls' = [calls EXCEPT ![s] =
                [@ EXCEPT !.pc = "responded", !.has_permission = answer.value]]
         /\ probe' = [op |-> "check_guild_permissions", reply |-> reply,
                      guild_id |-> PyStr(calls[s].key[2]), done |-> TRUE,
                      output |-> answer]
    /\ resp' = {}
    /\ UNCHANGED <<now, ticks, cache, perms, upstreamUp, lastInvoke,
                   overlapped, goodSince>>

NextFail ==
    \/ \E request \in Requests(now) : Quiescent /\ Serve(request, 1)
    \/ \E reply \in DiscordReplies : Fetch(1, reply)
    \/ Return(1)
    \/ Deliver

SpecFail == Init /\ [][NextFail]_vars

\* the fetch of the memberships failed: no connection, a status outside 2xx,
\* a body that cannot be parsed as the list of memberships, or permissions of
\* the guild's entry that are no integer
UpstreamFailed(reply, guild_id) ==
    \/ reply.kind = "network_error"
    \/ reply.status \notin 200..299
    \/ reply.json # "list"
    \/ \E i \in 1..Len(reply.items) : reply.items[i].id.t = "missing"
    \/ /\ MatchingEntries(reply.items, guild_id) # {}
       /\ int(GetPermissions(reply.items[
              Least(MatchingEntries(reply.items, guild_id))])).raised

\* C12: when the fetch of the guild memberships fails (network error, non-2xx
\* status, unparsable body or permissions), check_guild_permissions returns
\* False and raises nothing, and the require_permission call that missed the
\* cache answers 403 without running the handler.
C12_FailClosed ==
    (/\ probe.op = "check_guild_permissions"
     /\ probe.done
     /\ UpstreamFailed(probe.reply, probe.guild_id)) =>
        /\ ~probe.output.raised
        /\ ~probe.output.value
        /\ \A s \in Slots : calls[s].pc = "responded" => ~calls[s].has_permission
        /\ \A r \in resp : r.source = "discord" =>
               r.status = 403 /\ ~r.handler

\* A logged-in user's guild request answered 403 after the connection to
\* Discord failed
C12_Witness ==
    /\ probe.op = "check_guild_permissions"
    /\ probe.reply.kind = "network_error"
    /\ \E r \in resp :
         /\ r.source = "discord"
         /\ r.status = 403
         /\ r.auth.auth_type = "user"
         /\ r.invoked

----------------------------------------------------------------------------
(* The session credential: minted at login, verified and presented later *)

\* What get_user_info returned for the user logging in; the avatar may be
\* absent or null
UserDatas ==
    { [id |-> u, username |-> "alice", avatar |-> a] :
        u \in Users, a \in {Missing, PyNone, PyStr("a.png")} }

\* user_data.get("avatar")
GetAvatar(user_data) ==
    IF user_data.avatar.t = "missing" THEN PyNone ELSE user_data.avatar

\* Mutant: the Discord access token is left out of the payload
CreateJwtTokenWithoutAccessToken(user_data, discord_access_token, t) ==
    [form |-> "signed", user_id |-> user_data.id,
     username |-> user_data.username, avatar |-> GetAvatar(user_data),
     discord_access_token |-> "", iat |-> t, exp |-> t + TokenLifetime]

\* jwt.encode of the payload with iat = now and exp = now + 24 hours
create_jwt_token(user_data, discord_access_token, t) ==
    [form |-> "signed", user_id |-> user_data.id,
     username |-> user_data.username, avatar |-> GetAvatar(user_data),
     discord_access_token |-> discord_access_token, iat |-> t,
     exp |-> t + TokenLifetime]

NotVerified == [ok |-> FALSE, detail |-> "", claims |-> << >>]

TokenProbes ==
    { [op |-> "session", user_data |-> ud, discord_access_token |-> x,
       minted |-> FALSE, credential |-> NoToken, done |-> FALSE,
       verifiedAt |-> NoTime, output |-> NotVerified] :
        ud \in UserDatas, x \in {"T", ""} }

InitToken ==
    /\ now = 0
    /\ ticks = 0
    /\ cache = << >>
    /\ calls = [s \in Slots |-> Idle]
    /\ perms = [k \in {MainKey} |-> ADMIN_PERMISSION]
    /\ upstreamUp = TRUE
    /\ resp = {}
    /\ lastInvoke = [k \in Keys |-> NoTime]
    /\ overlapped = [k \in Keys |-> FALSE]
    /\ goodSince = [k \in Keys |-> NoTime]
    /\ probe \in TokenProbes

\* auth_callback: the user has logged in and the credential is minted
Mint ==
    /\ resp = {}
    /\ ~probe.minted
    /\ probe' = [probe EXCEPT !.minted = TRUE,
                   !.credential = create_jwt_token(probe.user_data,
                                      probe.discord_access_token, now)]
    /\ UNCHANGED <<now, ticks, cache, calls, perms, upstreamUp, resp,
                   lastInvoke, overlapped, goodSince>>

\* The credential is damaged or forged on the client's side: another
\* signature, or no longer three base64 segments
Corrupt(form) ==
    /\ resp = {}
    /\ probe.minted
    /\ probe.credential.form = "signed"
    /\ probe' = [probe EXCEPT !.credential.form = form, !.done = FALSE,
                              !.verifiedAt = NoTime, !.output = NotVerified]
    /\ UNCHANGED <<now, ticks, cache, calls, perms, upstreamUp, resp,
                   lastInvoke, overlapped, goodSince>>

\* discord_oauth.verify_jwt_token(credential) now
Verify ==
    /\ resp = {}
    /\ probe.minted
    /\ probe.verifiedAt # now
    /\ probe' = [probe EXCEPT !.done = TRUE, !.verifiedAt = now,
                   !.output = verify_jwt_token(probe.credential, now)]
    /\ UNCHANGED <<now, ticks, cache, calls, perms, upstreamUp, resp,
                   lastInvoke, overlapped, goodSince>>

\* the request that presents the credential as its Bearer token
Presenting(credential) ==
    Request(Target("GET", <<"api", "auth", "me">>, ""), <<>>,
            [scheme |-> "Bearer", token |-> credential])

TokenTickSteps == {1, TokenLifetime - 1}

NextToken ==
    \/ Mint
    \/ \E form \in {"badsig", "malformed"} : Corrupt(form)
    \/ Verify
    \/ probe.minted /\ Serve(Presenting(probe.credential), 1)
    \/ \E d \in TokenTickSteps : Tick(d)
    \/ Deliver

SpecToken == InitToken /\ [][NextToken]_vars

----------------------------------------------------------------------------
(* Claims about the session credential, under SpecToken *)

AsMinted == probe.minted /\ probe.credential.form = "signed"

ExpiredDetail == "Token has expired"
InvalidDetail == "Invalid token"

\* C13: for the claims of any login (subject id, display name, avatar that
\* may be absent, Discord access token), verify_jwt_token of the minted
\* credential at any time before its exp succeeds and returns the subject id,
\* display name, avatar and Discord access token that were minted.
C13_VerifyReturnsMintedClaims ==
    (AsMinted /\ probe.done /\ probe.verifiedAt < probe.credential.exp) =>
        /\ probe.output.ok
        /\ probe.output.claims.user_id = probe.user_data.id
        /\ probe.output.claims.username = probe.user_data.username
        /\ probe.output.claims.avatar =
             (IF probe.user_data.avatar = Missing THEN PyNone
              ELSE probe.user_data.avatar)
        /\ probe.output.claims.discord_access_token =
             probe.discord_access_token

\* Verified one second before the credential expires: the claims of a login
\* without avatar come back, with the access token
C13_Witness ==
    /\ AsMinted
    /\ probe.done
    /\ probe.verifiedAt = probe.credential.exp - 1
    /\ probe.user_data.avatar = Missing
    /\ probe.discord_access_token = "T"
    /\ probe.output.ok
    /\ probe.output.claims.discord_access_token = "T"
    /\ probe.output.claims.avatar = PyNone

\* what the dispatcher answers to a presented credential that has expired
ExpiredRejected(r) ==
    /\ r.status = 401
    /\ r.source = "middleware"
    /\ r.detail = ExpiredDetail
    /\ ~r.handler

\* C14 as claimed: exp is iat + 24 hours; verify_jwt_token of a correctly
\* signed credential fails as expired exactly when now > exp, and not at any
\* time up to and including exp; presented to the dispatcher after exp the
\* credential is rejected with 401 and the expired reason.
C14_ExpiredExactlyAfterExp ==
    /\ AsMinted =>
         probe.credential.exp = probe.credential.iat + TokenLifetime
    /\ (AsMinted /\ probe.done) =>
         ((probe.output.detail = ExpiredDetail) <=>
              probe.verifiedAt > probe.credential.exp)
    /\ \A r \in resp :
         (/\ r.request.authorization.token.form = "signed"
          /\ r.start > r.request.authorization.token.exp) =>
             ExpiredRejected(r)

\* C14 amended: exp is iat + 24 hours; verify_jwt_token of a correctly signed
\* credential fails as expired exactly when now >= exp: it is accepted at
\* every time before exp and expired from exp on; presented to the dispatcher
\* at or after exp the credential is rejected with 401 and the expired reason.
C14_ExpiredFromExpOn ==
    /\ AsMinted =>
         probe.credential.exp = probe.credential.iat + TokenLifetime
    /\ (AsMinted /\ probe.done) =>
         /\ (probe.output.detail = ExpiredDetail) <=>
                probe.verifiedAt >= probe.credential.exp
         /\ probe.output.ok <=> probe.verifiedAt < probe.credential.exp
    /\ \A r \in resp :
         (/\ r.request.authorization.token.form = "signed"
          /\ r.start >= r.request.authorization.token.exp) =>
             ExpiredRejected(r)

\* Verified, and presented, in the very second the credential's exp names:
\* expired both times
C14_Witness ==
    /\ AsMinted
    /\ probe.done
    /\ probe.verifiedAt = probe.credential.exp
    /\ probe.output.detail = ExpiredDetail
    /\ \E r \in resp :
         /\ r.start = r.request.authorization.token.exp
         /\ ExpiredRejected(r)

\* C15: verify_jwt_token of a credential whose signature does not verify or
\* whose structure is malformed fails as invalid, not as expired, and returns
\* no claims; a protected request that presents it as its Bearer token is
\* rejected with 401 by the middleware and gets no request.state.auth.
C15_InvalidRejected ==
    /\ (probe.minted /\ probe.done
        /\ probe.credential.form \in {"badsig", "malformed"}) =>
          /\ ~probe.output.ok
          /\ probe.output.detail = InvalidDetail
          /\ probe.output.detail # ExpiredDetail
          /\ probe.output.claims = << >>
    /\ \A r \in resp :
         (/\ Protected(r.request)
          /\ r.request.authorization.token.form \in {"badsig", "malformed"}) =>
             /\ r.status = 401
             /\ r.source = "middleware"
             /\ r.detail = InvalidDetail
             /\ ~r.hasState
             /\ r.auth = NoAuth
             /\ ~r.handler

\* A credential with a forged signature, verified and presented after its exp
\* has passed: invalid, not expired
C15_Witness ==
    /\ probe.minted
    /\ probe.done
    /\ probe.credential.form = "badsig"
    /\ probe.verifiedAt > probe.credential.exp
    /\ probe.output.detail = InvalidDetail
    /\ \E r \in resp :
         /\ r.request.authorization.token = probe.credential
         /\ r.status = 401
         /\ r.detail = InvalidDetail

----------------------------------------------------------------------------
(* Claims about the outcome of a denial, under SpecFail *)

GatedRoute(request) ==
    Route(request).found
    /\ Route(request).dependency \in {"require_permission", "bot_only_operation"}

----------------------------------------------------------------------------
(* Claims about who writes the permission cache, under SpecGate *)

\* the step answers a request from the cache
HitStep(r) == resp = {} /\ Hit(r)

\* the call in slot s comes back from Discord in this step
Returns(s) == calls[s].pc = "responded" /\ calls'[s].pc = "idle"

\* C24 (SpecGate): an entry appears or changes only in the step in which a
\* call that missed the cache comes back from Discord, and then only the entry
\* of that call's key.  A step answered from the cache leaves the map as the
\* sweep left it, the entry it was answered from still carries the timestamp
\* it was stored with, and that timestamp is less than 60 seconds old.
C24_OnlyMissesWrite ==
    [][ /\ \A k \in DOMAIN cache' :
              (k \notin DOMAIN cache \/ cache'[k] # cache[k]) =>
                  \E s \in Slots : Returns(s) /\ calls[s].key = k
        /\ \A r \in resp' :
              HitStep(r) =>
                  /\ cache' = _cleanup_expired_cache(cache, now)
                  /\ KeyOfResponse(r) \in DOMAIN cache
                  /\ cache'[KeyOfResponse(r)] = cache[KeyOfResponse(r)]
                  /\ r.start - cache'[KeyOfResponse(r)].cachedAt >= 0
                  /\ r.start - cache'[KeyOfResponse(r)].cachedAt
                         < PERMISSION_CACHE_TTL ]_vars

\* A denial served from an entry that is a second or more old and still carries
\* the timestamp it was stored with, while the entry of the other guild, 60
\* seconds old or older, was swept
C24_Witness ==
    \E r \in resp :
        /\ Hit(r)
        /\ r.status = 403
        /\ r.preAge > 0
        /\ cache[KeyOfResponse(r)].cachedAt = r.start - r.preAge
        /\ \E k \in Keys :
              /\ k # KeyOfResponse(r)
              /\ lastInvoke[k] # NoTime
              /\ ~InFlight(k)
              /\ k \notin DOMAIN cache

----------------------------------------------------------------------------
(* The guild-admin check of one user for one guild while Discord goes down and
   comes back and the user's permissions change, one request at a time *)

\* What GET /users/@me/guilds comes back with: the user's memberships while
\* Discord answers, no connection or an error status while it does not
OutageReplies(memberships, up) ==
    IF up
    THEN { HttpReply(200, "list",
             IF MainKey \in DOMAIN memberships
             THEN <<AdminEntry(PyStr(MainKey[2]),
                               PyStr(ToString(memberships[MainKey])))>>
             ELSE <<>>) }
    ELSE { [kind |-> "network_error", status |-> 0, json |-> "unparsable",
            items |-> <<>>],
           HttpReply(500, "unparsable", <<>>) }

NextOutage ==
    \/ \E request \in StaleRequests : Quiescent /\ Serve(request, 1)
    \/ \E reply \in OutageReplies(perms, upstreamUp) : Fetch(1, reply)
    \/ Return(1)
    \/ \E d \in TickSteps : Tick(d)
    \/ \E p \in PermValues : SetPermissions(MainKey, p)
    \/ UpstreamFlip
    \/ Deliver

SpecOutage == Init /\ [][NextOutage]_vars

\* the last fetch of the memberships failed
LastFetchFailed ==
    /\ probe.op = "check_guild_permissions"
    /\ UpstreamFailed(probe.reply, probe.guild_id)

\* C28 (SpecOutage): when the fetch of a miss failed, the call stores a denial
\* under the time taken before the fetch and answers 403; while that entry is
\* less than 60 seconds old every call for the key is denied from it without
\* a call to Discord, whatever Discord would answer by then; a call starts a
\* new fetch only when the entry is 60 seconds old or older.
C28_FailureCachedAsDenial ==
    [][ /\ (Returns(1) /\ LastFetchFailed) =>
              /\ calls[1].key \in DOMAIN cache'
              /\ ~cache'[calls[1].key].granted
              /\ cache'[calls[1].key].cachedAt = calls[1].current_time
              /\ \A r \in resp' : r.status = 403 /\ ~r.handler
        /\ \A r \in resp' :
              (HitStep(r) /\ LastFetchFailed) =>
                  /\ r.status = 403
                  /\ ~r.handler
                  /\ r.preAge >= 0
                  /\ r.preAge < PERMISSION_CACHE_TTL
                  /\ calls' = calls
                  /\ lastInvoke' = lastInvoke
        /\ (calls[1].pc = "idle" /\ calls'[1].pc = "calling"
              /\ calls'[1].key \in DOMAIN cache) =>
                  now - cache[calls'[1].key].cachedAt >= PERMISSION_CACHE_TTL
      ]_vars

\* An administrator is denied from the cache, Discord answering again, by an
\* entry that a failed fetch left; the entry carries the time of before the
\* fetch, which came back a second or more later
C28_Witness ==
    \E r \in resp :
        /\ Hit(r)
        /\ r.status = 403
        /\ LastFetchFailed
        /\ upstreamUp
        /\ goodSince[KeyOfResponse(r)] # NoTime
        /\ r.preAge > 0
        /\ cache[KeyOfResponse(r)].obtainedAt > cache[KeyOfResponse(r)].cachedAt

----------------------------------------------------------------------------
(* GET /api/auth/guilds and the guild-admin check on the same memberships *)

AuthConstants_ADMIN_PERMISSION == 8

\* Entries as Discord sends them and as it does not: the id a string, an
\* integer, no numeral or missing; the permissions missing, an integer, a
\* numeral or no numeral; with and without a name
ListedIdValues ==
    { PyStr("111"), PyInt(0, 111), PyStr("222"), PyStr("abc"), Missing }

ListedPermissionValues ==
    { Missing, PyInt(0, 1), PyStr("1099511627784"), PyStr("abc") }

ListedEntries ==
    [ id : ListedIdValues, permissions : ListedPermissionValues,
      name : {PyStr("g"), Missing}, owner : {FALSE} ]

ListedLists == UNION { [1..n -> ListedEntries] : n \in 0..MaxGuilds }

\* int(guild.get("permissions", 0)) & AuthConstants.ADMIN_PERMISSION != 0
IsAdminGuild(guild) ==
    BitAnd(int(GetPermissions(guild)).n.lo, AuthConstants_ADMIN_PERMISSION) # 0

\* the list comprehension admin_guilds, where no int(...) raises
admin_guilds(guilds) == SelectSeq(guilds, IsAdminGuild)

\* Mutant: every guild of the user is listed
AuthGuildsListsAll(reply, strict) ==
    IF get_user_guilds(reply).raised \/ reply.json # "list"
    THEN [status |-> 500, guilds |-> <<>>]
    ELSE [status |-> 200,
          guilds |-> [i \in 1..Len(reply.items) |->
                        [id |-> reply.items[i].id]]]

\* The handler get_user_guilds of GET /auth/guilds for a user with a Discord
\* token, on Discord's reply: 500 for every exception (the fetch, int() of an
\* entry's permissions, guild["id"] and guild["name"] of an admin entry,
\* int(gid) in fetch_bot_status, the validation of CustomGuildInfo.id: str,
\* which refuses an integer when strict and turns it into a string otherwise),
\* else 200 with the admin guilds.  The database answers.
auth_guilds(reply, strict) ==
    LET fetched == get_user_guilds(reply)
        admins == admin_guilds(fetched.data)
    IN  IF fetched.raised THEN [status |-> 500, guilds |-> <<>>]
        ELSE IF reply.json # "list"
        THEN [status |-> IF Len(fetched.data) > 0 THEN 500 ELSE 200,
              guilds |-> <<>>]
        ELSE IF \E i \in 1..Len(fetched.data) :
                    int(GetPermissions(fetched.data[i])).raised
        THEN [status |-> 500, guilds |-> <<>>]
        ELSE IF \E i \in 1..Len(admins) : admins[i].id.t = "missing"
        THEN [status |-> 500, guilds |-> <<>>]
        ELSE IF \E i \in 1..Len(admins) : int(admins[i].id).raised
        THEN [status |-> 500, guilds |-> <<>>]
        ELSE IF \E i \in 1..Len(admins) : admins[i].name.t = "missing"
        THEN [status |-> 500, guilds |-> <<>>]
        ELSE IF strict /\ \E i \in 1..Len(admins) : admins[i].id.t # "str"
        THEN [status |-> 500, guilds |-> <<>>]
        ELSE [status |-> 200,
              guilds |-> [i \in 1..Len(admins) |->
                            [id |-> PyStr(str(admins[i].id))]]]

NotListed == [status |-> 0, guilds |-> <<>>]

AgreeProbes ==
    { [op |-> "agree", reply |-> OkReply(l), guild_id |-> g,
       strict |-> b, listed |-> NotListed, done |-> FALSE,
       output |-> [raised |-> FALSE, value |-> FALSE]] :
        l \in ListedLists, g \in {PyStr("111")}, b \in BOOLEAN }

InitAgree ==
    /\ now = 0
    /\ ticks = 0
    /\ cache = << >>
    /\ calls = [s \in Slots |-> Idle]
    /\ perms = [k \in {MainKey} |-> ADMIN_PERMISSION]
    /\ upstreamUp = TRUE
    /\ resp = {}
    /\ lastInvoke = [k \in Keys |-> NoTime]
    /\ overlapped = [k \in Keys |-> FALSE]
    /\ goodSince = [k \in Keys |-> NoTime]
    /\ probe \in AgreeProbes

\* GET /api/auth/guilds is answered from Discord's reply
ApplyAuthGuilds ==
    /\ probe.op = "agree"
    /\ probe.listed = NotListed
    /\ probe' = [probe EXCEPT
                   !.listed = auth_guilds(probe.reply, probe.strict)]
    /\ UNCHANGED <<now, ticks, cache, calls, perms, upstreamUp, resp,
                   lastInvoke, overlapped, goodSince>>

\* check_guild_permissions for the guild is answered from the same reply
ApplyCheckSameReply ==
    /\ probe.op = "agree"
    /\ ~probe.done
    /\ probe' = [probe EXCEPT !.done = TRUE,
                   !.output = checkGuildAdmin(probe.reply, probe.guild_id)]
    /\ UNCHANGED <<now, ticks, cache, calls, perms, upstreamUp, resp,
                   lastInvoke, overlapped, goodSince>>

NextAgree ==
    \/ ApplyAuthGuilds
    \/ ApplyCheckSameReply

SpecAgree == InitAgree /\ [][NextAgree]_vars

\* both were answered
BothAnswered == probe.op = "agree" /\ probe.done /\ probe.listed # NotListed

\* the guild is in the list that GET /auth/guilds returned
Listed(result, guild_id) ==
    /\ result.status = 200
    /\ \E i \in 1..Len(result.guilds) : result.guilds[i].id = guild_id

\* every entry has a name, an id that is a numeral in a string and that no
\* other entry has, and permissions that read as an integer or are missing
WellFormedMemberships(guilds) ==
    /\ \A i \in 1..Len(guilds) :
          /\ guilds[i].id.t = "str"
          /\ ~int(guilds[i].id).raised
          /\ guilds[i].name.t # "missing"
          /\ ~int(GetPermissions(guilds[i])).raised
    /\ \A i, j \in 1..Len(guilds) :
          i # j => guilds[i].id # guilds[j].id

EntriesOf(guilds, guild_id) ==
    { i \in 1..Len(guilds) :
        guilds[i].id.t # "missing" /\ str(guilds[i].id) = str(guild_id) }

----------------------------------------------------------------------------
(* Guild messages: the create, update and delete routes, the events they
   publish for the bot, and the wait for the bot to post the message.

   One message row.  A message is [present, published, channel_id, guild_id,
   message_id] with "" for None; the row carries the guild id of the path.
   The bot, which is not part of this program, may post the message and write
   its message_id into the row at any time after a MESSAGE_CREATE event. *)

RETRY_LIMIT == 8

NoMessage ==
    [present |-> FALSE, published |-> FALSE, channel_id |-> "",
     guild_id |-> "", message_id |-> ""]

\* request bodies: published or not, with or without channel, guild id and
\* message id
MessageBodies ==
    [ present : {TRUE}, published : BOOLEAN, channel_id : {"", "c1"},
      guild_id : {"", "g"}, message_id : {"", "m0"} ]

NoEvents == << >>

\* PUB.publish_message_event(data, event_type): nothing without data, an
\* exception when EventPayload cannot be built (guild_id: int is required),
\* else the event goes out; Redis accepts it
publish_message_event(data, event_type) ==
    IF ~data.present THEN [raised |-> FALSE, events |-> NoEvents]
    ELSE IF data.guild_id = "" THEN [raised |-> TRUE, events |-> NoEvents]
    ELSE [raised |-> FALSE,
          events |-> <<[event |-> event_type, data |-> data]>>]

\* Mutant: True after every event
ManageReturnsTrueAfterEveryEvent(old_message, new_message) ==
    LET old_published == old_message.present /\ old_message.published
        new_published == new_message.present /\ new_message.published
        sent == IF new_published
                THEN publish_message_event(new_message,
                         IF old_published THEN "MESSAGE_UPDATE"
                         ELSE "MESSAGE_CREATE")
                ELSE publish_message_event(old_message, "MESSAGE_DELETE")
    IN  IF new_message.present /\ new_message.channel_id = ""
        THEN [returned |-> "False", raised |-> FALSE, events |-> NoEvents]
        ELSE IF ~new_published /\ ~old_published
        THEN [returned |-> "None", raised |-> FALSE, events |-> NoEvents]
        ELSE IF sent.raised
        THEN [returned |-> "", raised |-> TRUE, events |-> NoEvents]
        ELSE [returned |-> "True", raised |-> FALSE, events |-> sent.events]

\* manage_message_state_change(old_message, new_message): what it returns
\* ("True", "False", or "None" when it falls off its end), whether it raises,
\* and the events it publishes
manage_message_state_change(old_message, new_message) ==
    LET old_published == old_message.present /\ old_message.published
        new_published == new_message.present /\ new_message.published
        sent == IF new_published
                THEN publish_message_event(new_message,
                         IF old_published THEN "MESSAGE_UPDATE"
                         ELSE "MESSAGE_CREATE")
                ELSE publish_message_event(old_message, "MESSAGE_DELETE")
    IN  IF new_message.present /\ new_message.channel_id = ""
        THEN [returned |-> "False", raised |-> FALSE, events |-> NoEvents]
        ELSE IF ~new_published /\ ~old_published
        THEN [returned |-> "None", raised |-> FALSE, events |-> NoEvents]
        ELSE IF sent.raised
        THEN [returned |-> "", raised |-> TRUE, events |-> NoEvents]
        ELSE [returned |-> IF new_published /\ ~old_published
                           THEN "True" ELSE "False",
              raised |-> FALSE, events |-> sent.events]

NoCall ==
    [made |-> FALSE, old |-> NoMessage, new |-> NoMessage,
     result |-> [returned |-> "", raised |-> FALSE, events |-> NoEvents]]

NoResponse ==
    [status |-> 0, published |-> FALSE, message_id |-> "", waited |-> FALSE]

\* message.to_dict() as the response body
ToDict(message, waited) ==
    [status |-> 200, published |-> message.published,
     message_id |-> message.message_id, waited |-> waited]

\* _handle_database_error: 500
ServerError ==
    [status |-> 500, published |-> FALSE, message_id |-> "", waited |-> FALSE]

\* No row, no request in progress
NoMessages ==
    [op |-> "messages", row |-> NoMessage, pc |-> "idle", route |-> "",
     before |-> NoMessage, call |-> NoCall, instance |-> NoMessage,
     retry_count |-> 0, refreshes |-> 0, response |-> NoResponse]

InitMessages ==
    /\ now = 0
    /\ ticks = 0
    /\ cache = << >>
    /\ calls = [s \in Slots |-> Idle]
    /\ perms = [k \in {MainKey} |-> ADMIN_PERMISSION]
    /\ upstreamUp = TRUE
    /\ resp = {}
    /\ lastInvoke = [k \in Keys |-> NoTime]
    /\ overlapped = [k \in Keys |-> FALSE]
    /\ goodSince = [k \in Keys |-> NoTime]
    /\ probe = NoMessages

\* what a request leaves behind when it starts: the row it found, the call of
\* manage_message_state_change, and either its response or the wait
Started(route, row, call, waits, instance, response) ==
    [op |-> "messages", row |-> row, pc |-> IF waits THEN "waiting" ELSE "idle",
     route |-> route, before |-> probe.row, call |-> call,
     instance |-> instance, retry_count |-> 0, refreshes |-> 0,
     response |-> response]

\* POST /{guild_id}/messages: the row is saved with the body's fields and the
\* guild id of the path, then the state change is handled
create_message(message_data) ==
    /\ probe.op = "messages"
    /\ probe.pc = "idle"
    /\ ~probe.row.present
    /\ \E saved \in {[message_data EXCEPT !.guild_id = "g"]},
          result \in {manage_message_state_change(NoMessage, message_data)} :
         probe' =
           Started("create", saved,
                   [made |-> TRUE, old |-> NoMessage, new |-> message_data,
                    result |-> result],
                   ~result.raised /\ result.returned = "True", saved,
                   IF result.raised THEN ServerError
                   ELSE IF result.returned # "True" THEN ToDict(saved, FALSE)
                   ELSE NoResponse)
    /\ UNCHANGED <<now, ticks, cache, calls, perms, upstreamUp, resp,
                   lastInvoke, overlapped, goodSince>>

\* PUT /{guild_id}/messages/{message_id}: the state change is handled first;
\* the row is written only when that did not return True
update_message(message_data) ==
    /\ probe.op = "messages"
    /\ probe.pc = "idle"
    /\ probe.row.present
    /\ \E result \in {manage_message_state_change(probe.row, message_data)},
          updated \in {[message_data EXCEPT
                          !.guild_id = "g",
                          !.message_id = IF message_data.published
                                         THEN message_data.message_id
                                         ELSE ""]} :
         probe' =
           Started("update",
                   IF ~result.raised /\ result.returned # "True"
                   THEN updated ELSE probe.row,
                   [made |-> TRUE, old |-> probe.row, new |-> message_data,
                    result |-> result],
                   ~result.raised /\ result.returned = "True", probe.row,
                   IF result.raised THEN ServerError
                   ELSE IF result.returned # "True" THEN ToDict(updated, FALSE)
                   ELSE NoResponse)
    /\ UNCHANGED <<now, ticks, cache, calls, perms, upstreamUp, resp,
                   lastInvoke, overlapped, goodSince>>

\* DELETE /{guild_id}/messages/{message_id}
delete_message ==
    /\ probe.op = "messages"
    /\ probe.pc = "idle"
    /\ probe.row.present
    /\ \E result \in {manage_message_state_change(probe.row, NoMessage)} :
         probe' =
           Started("delete",
                   IF result.raised THEN probe.row ELSE NoMessage,
                   [made |-> TRUE, old |-> probe.row, new |-> NoMessage,
                    result |-> result],
                   FALSE, NoMessage,
                   IF result.raised THEN ServerError
                   ELSE [status |-> 200, published |-> FALSE,
                         message_id |-> "", waited |-> FALSE])
    /\ UNCHANGED <<now, ticks, cache, calls, perms, upstreamUp, resp,
                   lastInvoke, overlapped, goodSince>>

\* Mutant: the loop gives up one refresh earlier
LoopContinuesOneLess(message_id, retry_count) ==
    message_id = "" /\ retry_count < RETRY_LIMIT

\* while self.message_id is None and retry_count <= 8
LoopContinues(message_id, retry_count) ==
    message_id = "" /\ retry_count <= RETRY_LIMIT

\* One round of refresh_until_message_id: sleep, self.refresh() reads every
\* column of the row into the instance, retry_count += 1
Refresh ==
    /\ probe.op = "messages"
    /\ probe.pc = "waiting"
    /\ LoopContinues(probe.instance.message_id, probe.retry_count)
    /\ probe' = [probe EXCEPT !.instance = probe.row,
                              !.retry_count = @ + 1,
                              !.refreshes = @ + 1]
    /\ UNCHANGED <<now, ticks, cache, calls, perms, upstreamUp, resp,
                   lastInvoke, overlapped, goodSince>>

\* refresh_until_message_id returns; the caller sets published to False on
\* the instance when there is still no message id, and answers with it
Respond ==
    /\ probe.op = "messages"
    /\ probe.pc = "waiting"
    /\ ~LoopContinues(probe.instance.message_id, probe.retry_count)
    /\ probe' = [probe EXCEPT
                   !.pc = "idle",
                   !.response =
                       ToDict([probe.instance EXCEPT
                                 !.published =
                                     IF probe.instance.message_id = ""
                                     THEN FALSE ELSE @], TRUE)]
    /\ UNCHANGED <<now, ticks, cache, calls, perms, upstreamUp, resp,
                   lastInvoke, overlapped, goodSince>>

\* The bot has posted the message of a MESSAGE_CREATE event and records it in
\* the row
BotPosts ==
    /\ probe.op = "messages"
    /\ probe.call.result.events # NoEvents
    /\ probe.call.result.events[1].event = "MESSAGE_CREATE"
    /\ probe.row.present
    /\ probe.row.message_id = ""
    /\ probe' = [probe EXCEPT !.row.message_id = "m1",
                              !.row.published = TRUE]
    /\ UNCHANGED <<now, ticks, cache, calls, perms, upstreamUp, resp,
                   lastInvoke, overlapped, goodSince>>

NextMessages ==
    \/ \E message_data \in MessageBodies : create_message(message_data)
    \/ \E message_data \in MessageBodies : update_message(message_data)
    \/ delete_message
    \/ Refresh
    \/ Respond
    \/ BotPosts

SpecMessages == InitMessages /\ [][NextMessages]_vars

\* the event loop resumes the waiting coroutine after each sleep
SpecMessagesLive ==
    SpecMessages /\ WF_vars(Refresh) /\ WF_vars(Respond)

----------------------------------------------------------------------------
(* Claims about manage_message_state_change, under SpecMessages *)

\* the request in progress or just answered has called it
Called == probe.op = "messages" /\ probe.call.made

Published(message) == message.present /\ message.published

NoChannel(message) == message.present /\ message.channel_id = ""

EventOf(event_type, data) == <<[event |-> event_type, data |-> data]>>

C26_UnpublishedOrDeletedSendsDelete ==
    (Called /\ ~probe.call.result.raised) =>
        /\ Len(probe.call.result.events) <= 1
        /\ (Published(probe.call.new) /\ ~NoChannel(probe.call.new)) =>
               probe.call.result.events =
                   EventOf(IF Published(probe.call.old)
                           THEN "MESSAGE_UPDATE" ELSE "MESSAGE_CREATE",
                           probe.call.new)
        /\ (~Published(probe.call.new) /\ ~Published(probe.call.old)) =>
               probe.call.result.events = NoEvents
        /\ (Published(probe.call.new) /\ NoChannel(probe.call.new)) =>
               probe.call.result.events = NoEvents
        /\ (Published(probe.call.old) /\ ~Published(probe.call.new)) =>
               probe.call.result.events =
                   EventOf("MESSAGE_DELETE", probe.call.old)

----------------------------------------------------------------------------
(* Claims about refresh_until_message_id, under SpecMessagesLive *)

\* the request was answered after refresh_until_message_id
Waited == probe.op = "messages" /\ probe.pc = "idle" /\ probe.response.waited

\* ... which gave up: still no message id
GaveUp == Waited /\ probe.response.message_id = ""

\* C30 as claimed: after the retries are exhausted the response says
\* published = False while the stored row is published.
C30_RowRemainsPublished ==
    GaveUp => (~probe.response.published /\ probe.row.published)

\* the message id of the instance that refresh_until_message_id is called on:
\* of the row just saved, or of the row found
IdOnEntry ==
    IF probe.route = "create" THEN probe.call.new.message_id
    ELSE probe.before.message_id

\* what holds of the wait in every state
WaitInvariant ==
    probe.op = "messages" =>
        /\ probe.refreshes <= RETRY_LIMIT + 1
        /\ probe.refreshes = probe.retry_count
        /\ GaveUp =>
             /\ probe.refreshes = RETRY_LIMIT + 1
             /\ ~probe.response.published
             /\ probe.route = "create" => probe.row.published
             /\ (probe.route = "update" /\ probe.row.message_id = "") =>
                    (probe.row = probe.before /\ ~probe.row.published)
        /\ Waited => (probe.refreshes = 0 <=> IdOnEntry # "")

\* what holds of every round
WaitStep ==
    (probe.op = "messages" /\ probe'.refreshes = probe.refreshes + 1) =>
        /\ probe.instance.message_id = ""
        /\ probe.retry_count <= RETRY_LIMIT
        /\ probe'.instance = probe.row

\* C30 amended: refresh_until_message_id ends: it refreshes at most 9 times,
\* only while the instance has no message id, not at all when it has one on
\* entry, and 9 times before it gives up.  The caller then answers
\* published = False; after create_message the stored row is published, after
\* update_message the stored row is the one from before the request, not
\* published, unless the bot has written to it since.
C30_WaitEndsRowAsSaved ==
    /\ []WaitInvariant
    /\ [][WaitStep]_vars
    /\ (probe.op = "messages" /\ probe.pc = "waiting") ~>
           (probe.op = "messages" /\ probe.pc = "idle")

\* update_message gave up after 9 refreshes and the stored row is still the
\* unpublished one
C30_Witness ==
    /\ GaveUp
    /\ probe.route = "update"
    /\ probe.refreshes = RETRY_LIMIT + 1
    /\ ~probe.row.published
    /\ probe.call.new.published

----------------------------------------------------------------------------
(* The guild a route handler works on: the path parameter, converted by
   ids_string_to_int, against the guild id the middleware attached *)

\* ids_string_to_int(guild_id=value) of a path parameter: the int, or
\* BAD_REQUEST when int(value) raises ValueError
ids_string_to_int(value) == int(PyStr(value))

\* {guild_id} of the path as clients may write it
PathGuildIds == {"111", "222", "+111", "+222", "abc"}

\* Requests to guild routes behind require_permission, with and without the
\* guild_id query parameter, from a logged-in user and from the bot
PathRequests ==
    { Request(Target("GET", GuildPath(seg, res), q), k, a) :
        seg \in PathGuildIds, res \in {"data", "preferences"},
        q \in {"", "111", "222"},
        <<k, a>> \in { <<(<<>>),
                         [scheme |-> "Bearer",
                          token |-> SignedToken("u1", "T", TokenLifetime)]>>,
                       <<(<<"key1">>), [scheme |-> "", token |-> NoToken]>> } }

\* The server taking one request at a time to the guild routes
NextPath ==
    \/ \E request \in PathRequests : Quiescent /\ Serve(request, 1)
    \/ Upstream(1)
    \/ Return(1)
    \/ Deliver

SpecPath == Init /\ [][NextPath]_vars

\* the handler of the response ran for a user behind require_permission and
\* got an integer guild id from the path
UserReachedHandler(r) ==
    /\ r.handler
    /\ r.dependency = "require_permission"
    /\ r.auth.auth_type = "user"
    /\ ~ids_string_to_int(r.request.path[3]).raised

\* C27: whenever a guild route behind require_permission runs its handler for
\* a user, the guild id the admin check was made for is the guild id the
\* handler converts from the path parameter.
C27_CheckedGuildIsHandlerGuild ==
    \A r \in resp :
        UserReachedHandler(r) =>
            /\ ~int(PyStr(r.guild_id)).raised
            /\ int(PyStr(r.guild_id)).n = ids_string_to_int(r.request.path[3]).n

----------------------------------------------------------------------------
(* get_or_create on one table: the rows with their lookup field and one other
   column, and the coroutines between their get_by and their save *)

\* get_or_create calls made in one run
MaxCalls == 3

\* the lookup key of every call (**kwargs)
LookupKey == "k1"

\* defaults: a value for the other column, and possibly one for the lookup
\* field itself ("" when defaults has no such entry)
DefaultsValues ==
    { [lookup_field |-> f, language |-> l] :
        f \in {"", "k2"}, l \in {"it-IT", "ru-RU"} }

NoRow == [key |-> "", language |-> ""]

\* get_by(**kwargs): scalar_one_or_none of the rows with the key; it raises
\* MultipleResultsFound on more than one
get_by(rows, key) ==
    LET found == SelectSeq(rows, LAMBDA row : row.key = key)
    IN  IF Len(found) > 1 THEN [raised |-> TRUE, instance |-> NoRow]
        ELSE IF Len(found) = 1 THEN [raised |-> FALSE, instance |-> found[1]]
        ELSE [raised |-> FALSE, instance |-> NoRow]

\* create_data = {**kwargs}; create_data.update(defaults)
create_data(key, defaults) ==
    [key |-> IF defaults.lookup_field # "" THEN defaults.lookup_field ELSE key,
     language |-> defaults.language]

\* what a finished call gave back
Outcome(defaults, raised, created, instance) ==
    [defaults |-> defaults, raised |-> raised, created |-> created,
     instance |-> instance]

\* defaults=None
NoDefaults == [lookup_field |-> "", language |-> ""]

NoTask == [pc |-> "idle", defaults |-> NoDefaults]

\* An empty table, with or without a unique constraint on the lookup field
InitStore ==
    /\ now = 0
    /\ ticks = 0
    /\ cache = << >>
    /\ calls = [s \in Slots |-> Idle]
    /\ perms = [k \in {MainKey} |-> ADMIN_PERMISSION]
    /\ upstreamUp = TRUE
    /\ resp = {}
    /\ lastInvoke = [k \in Keys |-> NoTime]
    /\ overlapped = [k \in Keys |-> FALSE]
    /\ goodSince = [k \in Keys |-> NoTime]
    /\ \E unique \in BOOLEAN :
         probe = [op |-> "store", unique |-> unique, rows |-> <<>>,
                  tasks |-> [s \in Slots |-> NoTask], made |-> 0,
                  results |-> <<>>, concurrent |-> FALSE]

\* get_or_create up to its answer or to the await of save: the row is looked
\* up; found, it is returned with False; not found, the new instance is built
get_or_create(s, defaults) ==
    /\ probe.op = "store"
    /\ probe.tasks[s].pc = "idle"
    /\ probe.made < MaxCalls
    /\ \E found \in {get_by(probe.rows, LookupKey)} :
         probe' =
           [probe EXCEPT
              !.made = @ + 1,
              !.concurrent = @ \/ \E o \in Slots : probe.tasks[o].pc # "idle",
              !.tasks[s] =
                  IF ~found.raised /\ found.instance = NoRow
                  THEN [pc |-> "saving", defaults |-> defaults]
                  ELSE NoTask,
              !.results =
                  IF found.raised
                  THEN Append(@, Outcome(defaults, TRUE, FALSE, NoRow))
                  ELSE IF found.instance # NoRow
                  THEN Append(@, Outcome(defaults, FALSE, FALSE, found.instance))
                  ELSE @]
    /\ UNCHANGED <<now, ticks, cache, calls, perms, upstreamUp, resp,
                   lastInvoke, overlapped, goodSince>>

\* instance.save() of the call in task s: the row is inserted, or the unique
\* constraint raises IntegrityError; the call returns the instance with True
save(s) ==
    /\ probe.op = "store"
    /\ probe.tasks[s].pc = "saving"
    /\ \E instance \in {create_data(LookupKey, probe.tasks[s].defaults)} :
         LET taken == /\ probe.unique
                      /\ \E i \in 1..Len(probe.rows) :
                           probe.rows[i].key = instance.key
         IN  probe' =
               [probe EXCEPT
                  !.tasks[s] = NoTask,
                  !.rows = IF taken THEN @ ELSE Append(@, instance),
                  !.results =
                      Append(@, Outcome(probe.tasks[s].defaults, taken,
                                        ~taken,
                                        IF taken THEN NoRow ELSE instance))]
    /\ UNCHANGED <<now, ticks, cache, calls, perms, upstreamUp, resp,
                   lastInvoke, overlapped, goodSince>>

NextStore ==
    \/ \E s \in Slots, defaults \in DefaultsValues : get_or_create(s, defaults)
    \/ \E s \in Slots : save(s)

SpecStore == InitStore /\ [][NextStore]_vars

\* C23: of the calls made one after the other with the same key on a table
\* that had no row with it, the first one creates the row from the key and
\* its defaults and returns True, every later one returns that row with
\* False, and the table holds that one row, unchanged.
C23_OneRowCreatedOnce ==
    (probe.op = "store" /\ ~probe.concurrent /\ probe.results # <<>>) =>
        /\ probe.rows =
             <<create_data(LookupKey, probe.results[1].defaults)>>
        /\ \A i \in 1..Len(probe.results) :
             /\ ~probe.results[i].raised
             /\ probe.results[i].created = (i = 1)
             /\ probe.results[i].instance = probe.rows[1]

----------------------------------------------------------------------------
(* GET /api/auth/callback: the code is exchanged for a Discord access token,
   the user is fetched with it, and the session credential is minted *)

\* the authorization codes clients come back with
Codes == {"c1", "c2"}

LoginStatuses == {200, 201, 204, 400, 503}

NoBody ==
    [access_token |-> Missing, id |-> Missing, username |-> Missing,
     avatar |-> Missing]

LoginReply(status, json, body) ==
    [kind |-> "http", status |-> status, json |-> json, body |-> body]

NoConnection ==
    [kind |-> "network_error", status |-> 0, json |-> "unparsable",
     body |-> NoBody]

\* bodies that are no JSON, or a JSON list, under every status
BrokenReplies ==
    {NoConnection}
    \cup { LoginReply(st, j, NoBody) :
             st \in LoginStatuses, j \in {"unparsable", "list"} }

\* What POST /oauth2/token can come back with
TokenReplies ==
    BrokenReplies
    \cup { LoginReply(st, "object", [NoBody EXCEPT !.access_token = a]) :
             st \in LoginStatuses, a \in {Missing, PyNone, PyStr("T")} }

\* What GET /users/@me can come back with
UserReplies ==
    BrokenReplies
    \cup { LoginReply(st, "object",
                      [NoBody EXCEPT !.id = i, !.username = n]) :
             st \in LoginStatuses, i \in {Missing, PyStr("u1")},
             n \in {Missing, PyStr("alice")} }

\* Mutant: the status of the reply is not looked at
MakeRequestAnyStatus(reply) ==
    IF reply.kind = "network_error" \/ reply.json = "unparsable"
    THEN [raised |-> TRUE, json |-> "", data |-> NoBody]
    ELSE [raised |-> FALSE, json |-> reply.json, data |-> reply.body]

\* make_request: HTTPException(503) on a network error, the decoding error of
\* response.json(), HTTPException(400) on a status other than 200 and 201
\* (AttributeError when that body is no object), else the parsed body
make_request(reply) ==
    IF reply.kind = "network_error" \/ reply.json = "unparsable"
    THEN [raised |-> TRUE, json |-> "", data |-> NoBody]
    ELSE IF reply.status \notin {200, 201}
    THEN [raised |-> TRUE, json |-> "", data |-> NoBody]
    ELSE [raised |-> FALSE, json |-> reply.json, data |-> reply.body]

\* data[key]: KeyError when the object has no such key, TypeError when the
\* body is a list
Subscript(result, key) ==
    IF result.raised \/ result.json # "object" \/ result.data[key].t = "missing"
    THEN [raised |-> TRUE, value |-> Missing]
    ELSE [raised |-> FALSE, value |-> result.data[key]]

\* the page posted to the opener: the token on success, the error otherwise
generate_popup_html(success, token, error) ==
    [message_type |-> IF success THEN "DISCORD_OAUTH_SUCCESS"
                      ELSE "DISCORD_OAUTH_ERROR",
     token |-> IF success THEN token ELSE <<>>,
     error |-> IF success THEN "" ELSE error]

\* the except branch of auth_callback
AuthenticationFailed ==
    <<generate_popup_html(FALSE, <<>>, "Authentication failed")>>

NoLogin ==
    [op |-> "login", pc |-> "idle", code |-> "", sent |-> <<>>,
     token_reply |-> <<>>, user_reply |-> <<>>,
     discord_access_token |-> Missing, minted |-> <<>>, response |-> <<>>]

InitLogin ==
    /\ now = 0
    /\ ticks = 0
    /\ cache = << >>
    /\ calls = [s \in Slots |-> Idle]
    /\ perms = [k \in {MainKey} |-> ADMIN_PERMISSION]
    /\ upstreamUp = TRUE
    /\ resp = {}
    /\ lastInvoke = [k \in Keys |-> NoTime]
    /\ overlapped = [k \in Keys |-> FALSE]
    /\ goodSince = [k \in Keys |-> NoTime]
    /\ probe = NoLogin

\* The browser comes back with a code: exchange_code_for_token is awaited
auth_callback(code) ==
    /\ probe.op = "login"
    /\ probe.pc \in {"idle", "done"}
    /\ probe' = [NoLogin EXCEPT !.pc = "exchanging", !.code = code,
                                !.sent = <<"oauth2/token">>]
    /\ UNCHANGED <<now, ticks, cache, calls, perms, upstreamUp, resp,
                   lastInvoke, overlapped, goodSince>>

\* Discord answers the exchange: token_data["access_token"] is read and
\* get_user_info is awaited, or the except branch answers
exchange_code_for_token(reply) ==
    /\ probe.op = "login"
    /\ probe.pc = "exchanging"
    /\ \E access_token \in {Subscript(make_request(reply), "access_token")} :
         probe' =
           IF access_token.raised
           THEN [probe EXCEPT !.pc = "done", !.token_reply = <<reply>>,
                              !.response = AuthenticationFailed]
           ELSE [probe EXCEPT !.pc = "identifying",
                              !.token_reply = <<reply>>,
                              !.discord_access_token = access_token.value,
                              !.sent = Append(@, "users/@me")]
    /\ UNCHANGED <<now, ticks, cache, calls, perms, upstreamUp, resp,
                   lastInvoke, overlapped, goodSince>>

\* Discord answers the user query: create_jwt_token reads id and username
\* and signs the credential, or the except branch answers
get_user_info(reply) ==
    /\ probe.op = "login"
    /\ probe.pc = "identifying"
    /\ \E id \in {Subscript(make_request(reply), "id")},
          username \in {Subscript(make_request(reply), "username")} :
         IF id.raised \/ username.raised
         THEN probe' = [probe EXCEPT !.pc = "done", !.user_reply = <<reply>>,
                                     !.response = AuthenticationFailed]
         ELSE \E jwt_token \in
                  {create_jwt_token(
                       [id |-> id.value.v, username |-> username.value.v,
                        avatar |-> reply.body.avatar],
                       IF probe.discord_access_token.t = "null" THEN ""
                       ELSE probe.discord_access_token.v, now)} :
                probe' =
                  [probe EXCEPT
                     !.pc = "done", !.user_reply = <<reply>>,
                     !.minted = <<jwt_token>>,
                     !.response =
                         <<generate_popup_html(TRUE, <<jwt_token>>, "")>>]
    /\ UNCHANGED <<now, ticks, cache, calls, perms, upstreamUp, resp,
                   lastInvoke, overlapped, goodSince>>

NextLogin ==
    \/ \E code \in Codes : auth_callback(code)
    \/ \E reply \in TokenReplies : exchange_code_for_token(reply)
    \/ \E reply \in UserReplies : get_user_info(reply)

SpecLogin == InitLogin /\ [][NextLogin]_vars

----------------------------------------------------------------------------
(* Claims about the login callback, under SpecLogin *)

\* a call to Discord failed: no connection, or a status outside 2xx
CallFailed(replies) ==
    /\ replies # <<>>
    /\ \/ replies[1].kind = "network_error"
       \/ replies[1].status \notin 200..299

\* C21: a credential is minted, and returned, only when the exchange and then
\* the user query were sent and both answered without failure; it carries
\* what they answered.  When the exchange fails the user query is not sent;
\* when either fails nothing is minted and the page carries the error and no
\* token.
C21_TokenOnlyAfterBoth ==
    probe.op = "login" =>
        /\ probe.minted # <<>> =>
             /\ probe.pc = "done"
             /\ probe.sent = <<"oauth2/token", "users/@me">>
             /\ probe.token_reply # <<>> /\ ~CallFailed(probe.token_reply)
             /\ probe.user_reply # <<>> /\ ~CallFailed(probe.user_reply)
             /\ PyStr(probe.minted[1].user_id) = probe.user_reply[1].body.id
             /\ probe.token_reply[1].body.access_token
                  \in {PyStr(probe.minted[1].discord_access_token), PyNone}
        /\ probe.response # <<>> =>
             /\ probe.pc = "done"
             /\ probe.response[1].token = probe.minted
             /\ (probe.response[1].message_type = "DISCORD_OAUTH_SUCCESS")
                  <=> (probe.minted # <<>>)
        /\ CallFailed(probe.token_reply) =>
             /\ probe.sent = <<"oauth2/token">>
             /\ probe.user_reply = <<>>
        /\ (CallFailed(probe.token_reply) \/ CallFailed(probe.user_reply)) =>
             /\ probe.minted = <<>>
             /\ probe.response = AuthenticationFailed
        /\ probe.pc = "done" => probe.response # <<>>

\* the exchange and the user query succeeded and the page carries the
\* credential minted for that user with that access token
C21_Witness ==
    /\ probe.op = "login"
    /\ probe.pc = "done"
    /\ probe.sent = <<"oauth2/token", "users/@me">>
    /\ probe.minted # <<>>
    /\ probe.minted[1].user_id = "u1"
    /\ probe.minted[1].discord_access_token = "T"
    /\ probe.response[1].token = probe.minted

----------------------------------------------------------------------------
(* The log: what each logger call of the middleware, the route dependencies,
   verify_jwt_token, check_guild_permissions and make_request writes while a
   request is handled.  An entry keeps the place of the call, the request
   path when the message has it, the reason it gives, and the values it
   interpolates. *)

\* os.getenv("JWT_SECRET")
JWT_SECRET == "jwt-secret"

NoPath == <<>>

LogEntry(site, path, reason, shows) ==
    [site |-> site, path |-> path, reason |-> reason, shows |-> shows]

\* the credential as it stands in the Authorization header
Serialized(token) == ToString(token)

\* Mutant: the Discord token is part of the representation
AuthDataReprWithToken(auth) ==
    {auth.auth_type, auth.username, auth.discord_token}

\* AuthData.__repr__: "AuthInfo(type=..., user=...)"
AuthData__repr__(auth) == {auth.auth_type, auth.username}

\* the warnings of verify_jwt_token; the text of the PyJWT exception names
\* the defect, not the token
VerifyJwtLog(token, t) ==
    IF verify_jwt_token(token, t).ok THEN <<>>
    ELSE IF verify_jwt_token(token, t).detail = "Token has expired"
    THEN <<LogEntry("verify_jwt_token", NoPath, "JWT token has expired", {})>>
    ELSE <<LogEntry("verify_jwt_token", NoPath, "Invalid JWT token", {})>>

\* _authenticate reaches verify_jwt_token
VerifiesToken(request) ==
    /\ ~HasApiKey(request)
    /\ request.authorization.scheme = "Bearer"
    /\ request.authorization.token.form # "empty"

\* str(e) in dispatch: the message of a plain Exception; of an HTTPException
\* "status: detail" where Starlette defines __str__ and "" where it does not
StrOfException(request, t, has_str) ==
    IF VerifiesToken(request) /\ ~has_str THEN ""
    ELSE _authenticate(request, t).detail

\* dispatch: "Auth success: {auth_info}" or
\* "Auth failed for {request.url.path}: {e}"
DispatchLog(request, t, has_str) ==
    IF request.method = "OPTIONS" \/ _is_public_route(request.path) THEN <<>>
    ELSE (IF VerifiesToken(request)
          THEN VerifyJwtLog(request.authorization.token, t) ELSE <<>>)
         \o (IF _authenticate(request, t).ok
             THEN <<LogEntry("dispatch", NoPath, "Auth success",
                       AuthData__repr__(_authenticate(request, t).auth))>>
             ELSE <<LogEntry("dispatch", request.path,
                       StrOfException(request, t, has_str), {})>>)

\* _verify_guild_admin_permission before its await
VerifyStartLog(auth, guild_id, c, current_time) ==
    IF auth.discord_token = ""
    THEN <<LogEntry("_verify_guild_admin_permission", NoPath,
                    "missing Discord token", {auth.username})>>
    ELSE IF VerifyStart(auth, guild_id, c, current_time).outcome = "ok"
    THEN <<LogEntry("_verify_guild_admin_permission", NoPath,
                    "permission check cached: granted",
                    {auth.username, guild_id})>>
    ELSE IF VerifyStart(auth, guild_id, c, current_time).outcome = "403"
    THEN <<LogEntry("_verify_guild_admin_permission", NoPath,
                    "permission check cached: denied",
                    {auth.username, guild_id})>>
    ELSE <<>>

\* require_permission after _verify_guild_admin_permission returned
VerifiedLog(auth, guild_id) ==
    <<LogEntry("require_permission", NoPath, "verified",
               {auth.username, guild_id})>>

\* the route dependencies up to the await of Discord
GateLog(h, c, current_time) ==
    IF ~h.d.pass \/ ~h.d.hasState \/ h.source = "router" THEN <<>>
    ELSE IF h.dependency = "bot_only_operation"
    THEN IF h.d.auth.auth_type = "bot" THEN <<>>
         ELSE <<LogEntry("bot_only_operation", NoPath,
                         "Bot operation denied", {h.d.auth.username})>>
    ELSE IF h.dependency # "require_permission" THEN <<>>
    ELSE IF h.d.auth.auth_type = "bot"
    THEN <<LogEntry("require_permission", NoPath, "granted access",
                    {h.d.auth.username})>>
    ELSE IF h.d.guild_id = "" THEN <<>>
    ELSE VerifyStartLog(h.d.auth, h.d.guild_id, c, current_time)
         \o (IF h.outcome = "ok" THEN VerifiedLog(h.d.auth, h.d.guild_id)
             ELSE <<>>)

\* make_request: the request line, then the status and the body of a reply
\* with another status than 200 and 201, or the network error
MakeRequestLog(reply) ==
    <<LogEntry("make_request", NoPath, "Making GET request",
               {"https://discord.com/api/v10/users/@me/guilds"})>>
    \o (IF reply.kind = "network_error"
        THEN <<LogEntry("make_request", NoPath, "Network error", {})>>
        ELSE IF reply.json = "object" /\ reply.status \notin {200, 201}
        THEN <<LogEntry("make_request", NoPath, "Discord API error",
                        {ToString(reply.status), ToString(reply.items)})>>
        ELSE <<>>)

\* check_guild_permissions: the guild and the permissions found, or the
\* exception
CheckGuildLog(reply, guild_id) ==
    LET fetched == get_user_guilds(reply)
        target == TargetGuild(fetched.data, guild_id, 1)
    IN  IF CheckGuildTry(reply, guild_id).raised
        THEN <<LogEntry("check_guild_permissions", NoPath,
                        "Error checking guild permissions", {})>>
        ELSE IF reply.json # "list" \/ target = 0
        THEN <<LogEntry("check_guild_permissions", NoPath,
                        "User not found in guild", {str(guild_id)})>>
        ELSE <<LogEntry("check_guild_permissions", NoPath,
                        "User permissions in guild",
                        {str(guild_id),
                         str(int(GetPermissions(fetched.data[target])).n)}),
               LogEntry("check_guild_permissions", NoPath,
                        IF CheckGuildTry(reply, guild_id).value
                        THEN "User has admin permissions"
                        ELSE "User does not have admin permissions",
                        {str(guild_id)})>>

\* _verify_guild_admin_permission and require_permission after the await; the
\* FORBIDDEN raised in the try block is caught and logged by its except
AfterCheckLog(auth, guild_id, has_permission) ==
    IF has_permission
    THEN <<LogEntry("_verify_guild_admin_permission", NoPath, "verified",
                    {auth.username, guild_id})>>
         \o VerifiedLog(auth, guild_id)
    ELSE <<LogEntry("_verify_guild_admin_permission", NoPath,
                    "denied: no admin permissions",
                    {auth.username, guild_id}),
           LogEntry("_verify_guild_admin_permission", NoPath,
                    "Failed to verify guild permissions",
                    {auth.username})>>

NoLog ==
    [op |-> "log", served |-> FALSE, request |-> <<>>, reply |-> <<>>,
     status |-> 0, source |-> "", detail |-> "", entries |-> <<>>]

\* The server with an empty log, on a Starlette with or without
\* HTTPException.__str__
InitLog ==
    /\ now = 0
    /\ ticks = 0
    /\ cache = << >>
    /\ calls = [s \in Slots |-> Idle]
    /\ perms = [k \in {MainKey} |-> ADMIN_PERMISSION]
    /\ upstreamUp = TRUE
    /\ resp = {}
    /\ lastInvoke = [k \in Keys |-> NoTime]
    /\ overlapped = [k \in Keys |-> FALSE]
    /\ goodSince = [k \in Keys |-> NoTime]
    /\ \E has_str \in BOOLEAN : probe = [has_str |-> has_str] @@ NoLog

\* A request that is answered without asking Discord, and what it logs
ServeLogged(request) ==
    /\ probe.op = "log"
    /\ \E h \in {Handle(request, now, cache)} :
         /\ h.outcome # "call"
         /\ cache' = h.cacheAfter
         /\ probe' = [probe EXCEPT
                        !.served = TRUE, !.request = <<request>>,
                        !.reply = <<>>, !.status = StatusOf(h.outcome),
                        !.source = h.source, !.detail = h.d.detail,
                        !.entries = DispatchLog(request, now, probe.has_str)
                                    \o GateLog(h, cache, now)]
    /\ UNCHANGED <<now, ticks, calls, perms, upstreamUp, resp, lastInvoke,
                   overlapped, goodSince>>

\* A request whose guild-admin check asks Discord, Discord's reply, and what
\* is logged on the way
ServeLoggedAsking(request) ==
    /\ probe.op = "log"
    /\ \E h \in {Handle(request, now, cache)} :
         /\ h.outcome = "call"
         /\ \E reply \in DiscordReplies :
            \E answer \in {checkGuildAdmin(reply, PyStr(h.d.guild_id))} :
              /\ cache' = [k \in DOMAIN h.cacheAfter \cup {KeyOf(h)} |->
                             IF k = KeyOf(h)
                             THEN CacheEntry(answer.value, now, now)
                             ELSE h.cacheAfter[k]]
              /\ probe' = [probe EXCEPT
                             !.served = TRUE, !.request = <<request>>,
                             !.reply = <<reply>>,
                             !.status = IF answer.value THEN 200 ELSE 403,
                             !.source = "discord", !.detail = "",
                             !.entries =
                                 DispatchLog(request, now, probe.has_str)
                                 \o GateLog(h, cache, now)
                                 \o MakeRequestLog(reply)
                                 \o CheckGuildLog(reply, PyStr(h.d.guild_id))
                                 \o AfterCheckLog(h.d.auth, h.d.guild_id,
                                                  answer.value)]
    /\ UNCHANGED <<now, ticks, calls, perms, upstreamUp, resp, lastInvoke,
                   overlapped, goodSince>>

\* Requests to a public route, the auth routes and the guild routes, with
\* every kind of credential, alone and beside a service key
LogRequests ==
    { Request(tg, k, a) :
        tg \in { Target("OPTIONS", GuildPath("111", "data"), ""),
                 Target("GET", <<"health">>, ""),
                 Target("GET", <<"api", "auth", "me">>, ""),
                 Target("GET", GuildPath("111", "data"), ""),
                 Target("GET", GuildPath("abc", "data"), "222"),
                 Target("POST", GuildPath("111", "data"), "") },
        k \in {<<>>}, a \in Authorizations(0) }
    \cup
    { Request(Target("GET", GuildPath("111", "data"), ""), k, a) :
        k \in ApiKeyHeaders \ {<<>>},
        a \in { [scheme |-> "", token |-> NoToken],
                [scheme |-> "Bearer",
                 token |-> SignedToken("u1", "T", TokenLifetime)] } }

NextLog ==
    \/ \E request \in LogRequests : ServeLogged(request)
    \/ \E request \in LogRequests : ServeLoggedAsking(request)

SpecLog == InitLog /\ [][NextLog]_vars

----------------------------------------------------------------------------
(* Claims about the log, under SpecLog *)

\* the service keys, the key and the credential the request presents, the
\* Discord access token in it, and the signing secret
Secrets(request) ==
    (API_KEYS
     \cup (IF request.api_key # <<>> THEN {request.api_key[1]} ELSE {})
     \cup {Serialized(request.authorization.token),
           request.authorization.token.discord_access_token, JWT_SECRET})
    \ {""}

\* the reason verify_jwt_token logs for the detail it raises
VerifyReason(detail) ==
    IF detail = "Token has expired" THEN "JWT token has expired"
    ELSE "Invalid JWT token"

\* C22: no log entry written while a request is authenticated and authorized
\* shows a service key, the credential, the Discord access token or the
\* signing secret; a request the middleware rejects with 401 is logged by
\* dispatch with its path, and the reason stands in that entry or in the
\* entry verify_jwt_token wrote just before it.
C22_NoSecretAndFailuresLogged ==
    (probe.op = "log" /\ probe.served) =>
        /\ \A i \in 1..Len(probe.entries) :
             probe.entries[i].shows \cap Secrets(probe.request[1]) = {}
        /\ probe.status = 401 =>
             \E i \in 1..Len(probe.entries) :
                /\ probe.entries[i].site = "dispatch"
                /\ probe.entries[i].path = probe.request[1].path
                /\ probe.detail # ""
                /\ \/ probe.entries[i].reason = probe.detail
                   \/ /\ i > 1
                      /\ probe.entries[i - 1].site = "verify_jwt_token"
                      /\ probe.entries[i - 1].reason = VerifyReason(probe.detail)

\* a request with an expired credential was rejected and logged with its
\* path and "Token has expired"
C22_Witness ==
    /\ probe.op = "log"
    /\ probe.served
    /\ probe.status = 401
    /\ probe.detail = "Token has expired"
    /\ probe.request[1].path = <<"api", "guilds", "111", "data">>
    /\ Len(probe.entries) = 2
    /\ probe.entries[2].path = probe.request[1].path
    /\ probe.entries[2].reason = probe.detail

====
